---- MODULE Spec2Model ----
(***************************************************************************)
(* Shamir secret sharing over GF(256) and the MPC layer built on it        *)
(* (thehephaistos/crypto-mpc).  The field, the polynomial routines and     *)
(* split/combine are operators computed as the C code computes them; the  *)
(* MPC session is a state machine whose actions are the library calls.     *)
(***************************************************************************)
EXTENDS Integers, Sequences, FiniteSets, TLC

VARIABLES
    pc,           \* position of the driver program
    rng,          \* the CSPRNG: its tape and the position of the next byte
    sss_dealt,    \* ghost: secret, K and N of the last successful sss_create_shares
    sss_shares,   \* caller's sss_share_t array, C index 0..MaxShares-1
    sss_oob,      \* ghost: data indexes >= SSS_SHARE_DATA_SIZE stored by the last split
    sss_out,      \* caller's output of sss_combine_shares: buffer and *secret_len
    sss_ret,      \* the last SSS call: operation, arguments, return code
    contexts,     \* the two mpc_context_t objects, contexts[1] and contexts[2]
    mpc_shares,   \* the caller's mpc_share_t arrays x, y, z, w
    mpc_val,      \* ghost: the plaintext each array is a sharing of, <<>> if none
    mpc_cnt,      \* ghost: how many leading entries of each array the sharing has
    mpc_cur,      \* the array that holds the latest result
    mpc_out,      \* caller's output buffer of mpc_reconstruct
    mpc_ret,      \* the last MPC call: operation, arguments, return code
    nops,         \* number of arithmetic calls made
    temps,        \* the temporaries of the last call as it left them at its return
    stores,       \* the stores the last call made into its one-byte result holders
    gf,           \* the field routines' bench: operation, operands a and b, result
    is_initialized,  \* the static int of secure_memory.c, as it is in memory
    sodium_ready, \* libsodium: whether a call of sodium_init has completed
    threads,      \* the two threads: position, what each has seen and got
    run           \* a split and a combine at the largest sizes, loop by loop

sss_vars == <<sss_dealt, sss_shares, sss_oob, sss_out, sss_ret>>

mpc_vars == <<contexts, mpc_shares, mpc_val, mpc_cnt, mpc_cur, mpc_out, mpc_ret, nops>>

mem_vars == <<temps, stores>>

thread_vars == <<is_initialized, sodium_ready, threads>>

other_vars == <<gf, thread_vars, run>>

vars == <<pc, rng, sss_vars, mpc_vars, mem_vars, other_vars>>

(***************************************************************************)
(* Program constants                                                       *)
(***************************************************************************)
SSS_MAX_SECRET_SIZE == 1024
SSS_MAX_SHARES == 255
SSS_MIN_THRESHOLD == 2
SSS_SHARE_DATA_SIZE == 32
SSS_MAX_POLYNOMIAL_DEGREE == 254

SSS_OK == 0
SSS_ERR_INVALID_PARAM == -1
SSS_ERR_INVALID_THRESHOLD == -2
SSS_ERR_INVALID_SHARES == -3
SSS_ERR_BUFFER_TOO_SMALL == -4
SSS_ERR_DUPLICATE_SHARE == -5
SSS_ERR_MEMORY == -7
SSS_ERR_CRYPTO == -8

POLY_OK == 0
POLY_ERROR == -1

Byte == 0..255

(***************************************************************************)
(* Bounds of the model                                                     *)
(***************************************************************************)
MaxShares == 3       \* capacity of the caller's share arrays
MaxSecretLen == 2    \* short secrets are 1..MaxSecretLen bytes long
MaxOps == 2          \* arithmetic calls chained in one computation
MaxValues == 2       \* share sets handed to mpc_secure_sum
MaxCalls == 2        \* calls of the secure memory layer that each thread makes
MaxThird == 63       \* third operands of the field laws: 17 * k, k in 0..MaxThird

(***************************************************************************)
(* GF(256) arithmetic (field.h, field_arithmetic.c)                        *)
(***************************************************************************)
\* C's ^ on two 4-bit values, bit by bit
XorNibble ==
    [p \in 0..15 |-> [q \in 0..15 |->
        ((p + q) % 2)
        + 2 * (((p \div 2) + (q \div 2)) % 2)
        + 4 * (((p \div 4) + (q \div 4)) % 2)
        + 8 * (((p \div 8) + (q \div 8)) % 2)]]

\* C's ^ on two uint8_t values
Xor(a, b) == XorNibble[a % 16][b % 16] + 16 * XorNibble[a \div 16][b \div 16]

gf256_add(a, b) == Xor(a, b)

gf256_sub(a, b) == Xor(a, b)

\* variant of gf256_mul_step without the reduction by the field polynomial
gf256_mul_step_unreduced(t) ==
    LET a == t[1]
        b == t[2]
        result == IF b % 2 = 1 THEN Xor(t[3], a) ELSE t[3]
        shifted == (a * 2) % 256
    IN  << shifted, b \div 2, result >>

\* one pass of the loop body of gf256_mul on the triple <<a, b, result>>
gf256_mul_step(t) ==
    LET a == t[1]
        b == t[2]
        result == IF b % 2 = 1 THEN Xor(t[3], a) ELSE t[3]
        shifted == (a * 2) % 256
    IN  << IF a >= 128 THEN Xor(shifted, 27) ELSE shifted, b \div 2, result >>

\* gf256_mul as the loop computes it: eight passes, then the accumulator
gf256_mul_loop(a, b) ==
    gf256_mul_step(gf256_mul_step(gf256_mul_step(gf256_mul_step(
    gf256_mul_step(gf256_mul_step(gf256_mul_step(gf256_mul_step(
        <<a, b, 0>>))))))))[3]

\* the products of all byte pairs, computed once by the loop above
GF256_MUL == [a \in Byte |-> [b \in Byte |-> gf256_mul_loop(a, b)]]

gf256_mul(a, b) == GF256_MUL[a][b]

\* square-and-multiply of gf256_inv on <<result, base, exp>>
RECURSIVE gf256_inv_loop(_, _, _)
gf256_inv_loop(result, base, exp) ==
    IF exp > 0
    THEN gf256_inv_loop(IF exp % 2 = 1 THEN gf256_mul(result, base) ELSE result,
                        gf256_mul(base, base), exp \div 2)
    ELSE result

gf256_inv_calc(a) == IF a = 0 THEN 0 ELSE gf256_inv_loop(1, a, 254)

GF256_INV == [a \in Byte |-> gf256_inv_calc(a)]

gf256_inv(a) == GF256_INV[a]

gf256_div(a, b) == IF b = 0 THEN 0 ELSE gf256_mul(a, gf256_inv(b))

(***************************************************************************)
(* The CSPRNG: randombytes_buf reads the next byte of a tape.  A tape is   *)
(* a finite cycle that holds at least one nonzero byte.                    *)
(***************************************************************************)
Tapes == { <<1>>, <<0, 2, 255, 9>> }

randombytes_buf(tape, pos) == tape[(pos % Len(tape)) + 1]

(***************************************************************************)
(* Polynomials (polynomial.c)                                              *)
(***************************************************************************)
\* the do { randombytes_buf } while (coeff == 0) loop: the tape position of
\* the first nonzero byte at or after pos
RECURSIVE draw_nonzero(_, _)
draw_nonzero(tape, pos) ==
    IF randombytes_buf(tape, pos) = 0 THEN draw_nonzero(tape, pos + 1) ELSE pos

\* the coefficient loop for i = 1..degree: the drawn coefficients a_1..a_d
\* followed by the tape position after the last draw
RECURSIVE poly_draw(_, _, _, _)
poly_draw(tape, pos, i, degree) ==
    IF i <= degree
    THEN LET p == draw_nonzero(tape, pos)
         IN  <<randombytes_buf(tape, p)>> \o poly_draw(tape, p + 1, i + 1, degree)
    ELSE <<pos>>

\* sss_polynomial_create: [rc, poly, pos]; poly is unset on error
sss_polynomial_create(secret, degree, tape, pos) ==
    IF degree > SSS_MAX_POLYNOMIAL_DEGREE
    THEN [rc |-> POLY_ERROR, poly |-> <<>>, pos |-> pos]
    ELSE LET drawn == poly_draw(tape, pos, 1, degree)
         IN  [rc   |-> POLY_OK,
              poly |-> [coefficients |->
                            [i \in 0..SSS_MAX_POLYNOMIAL_DEGREE |->
                                IF i = 0 THEN secret
                                ELSE IF i <= degree THEN drawn[i] ELSE 0],
                        degree |-> degree],
              pos  |-> drawn[degree + 1]]

\* Horner's loop for i = degree-1 down to 0: the next passes of it, at most
\* passes of them, from the counter and the result in at on (the passes are
\* run half by half, which keeps the evaluation shallow at degree 254)
RECURSIVE horner(_, _, _, _)
horner(poly, x, at, passes) ==
    IF passes = 0 \/ at.i < 0 THEN at
    ELSE IF passes = 1
    THEN [i |-> at.i - 1,
          result |-> gf256_add(gf256_mul(at.result, x), poly.coefficients[at.i])]
    ELSE CHOOSE after \in
            {horner(poly, x, half, passes - passes \div 2) :
                half \in {horner(poly, x, at, passes \div 2)}} : TRUE

sss_polynomial_evaluate(poly, x) ==
    horner(poly, x,
           [i |-> poly.degree - 1, result |-> poly.coefficients[poly.degree]],
           poly.degree).result

\* variant of lagrange_factor with the wrong numerator, x_i / (x_j - x_i)
lagrange_factor_swapped(xj, xi) == gf256_div(xi, gf256_sub(xj, xi))

\* one factor of the Lagrange basis at 0: x_j / (x_j - x_i)
lagrange_factor(xj, xi) == gf256_div(xj, gf256_sub(xj, xi))

\* inner loop over j of sss_polynomial_interpolate; points are indexed from 0
RECURSIVE lagrange_basis(_, _, _, _, _)
lagrange_basis(points_x, num_points, i, j, basis) ==
    IF j < num_points
    THEN lagrange_basis(points_x, num_points, i, j + 1,
            IF i = j THEN basis
            ELSE gf256_mul(basis, lagrange_factor(points_x[j], points_x[i])))
    ELSE basis

\* outer loop over i of sss_polynomial_interpolate
RECURSIVE interpolate_loop(_, _, _, _, _)
interpolate_loop(points_x, points_y, num_points, i, secret) ==
    IF i < num_points
    THEN interpolate_loop(points_x, points_y, num_points, i + 1,
            gf256_add(secret,
                gf256_mul(points_y[i],
                          lagrange_basis(points_x, num_points, i, 0, 1))))
    ELSE secret

sss_polynomial_interpolate(points_x, points_y, num_points) ==
    interpolate_loop(points_x, points_y, num_points, 0, 0)

\* sss_polynomial_wipe: the polynomial after the call
sss_polynomial_wipe(poly) ==
    [coefficients |-> [i \in 0..SSS_MAX_POLYNOMIAL_DEGREE |-> 0], degree |-> 0]

(***************************************************************************)
(* Temporaries.  Each routine reports the objects it created to hold       *)
(* secret material: name, kind of unit ("bytes", "sss_shares" or           *)
(* "mpc_shares"), held = how many leading units it stored into the object, *)
(* left = the units of the object when the routine returns or frees it.    *)
(***************************************************************************)
\* secure_wipe(ptr, size) on an object of size / sizeof(unit) units; zero is
\* the unit whose bytes are all zero
secure_wipe(obj, zero) == [i \in DOMAIN obj |-> zero]

\* secure_free(ptr, size): sodium_memzero over the object, then sodium_free;
\* what the memory held when it was given back
secure_free(obj, zero) == [i \in DOMAIN obj |-> zero]

\* the smallest element of a nonempty set of numbers
Least(S) == CHOOSE i \in S : \A j \in S : i <= j

(***************************************************************************)
(* Secret sharing (secret_sharing.c)                                       *)
(***************************************************************************)
\* an sss_share_t whose bytes are all zero
ZeroShare ==
    [index |-> 0, threshold |-> 0,
     data |-> [j \in 0..(SSS_SHARE_DATA_SIZE - 1) |-> 0], data_len |-> 0]

\* the byte that memory holds before the program has written it
FillByte == 170

\* a fresh buffer of cap bytes
FreshBuffer(cap) == [j \in 0..(cap - 1) |-> FillByte]

\* an sss_share_t of a fresh array: no field has been set yet
PoisonShare ==
    [index |-> FillByte, threshold |-> FillByte,
     data |-> [j \in 0..(SSS_SHARE_DATA_SIZE - 1) |-> FillByte],
     data_len |-> FillByte]

\* variant of validate_share_params that checks the number of shares before
\* the threshold
validate_share_params_count_first(secret_null, secret_len, threshold, num_shares, shares_null) ==
    IF secret_null \/ shares_null THEN SSS_ERR_INVALID_PARAM
    ELSE IF secret_len = 0 \/ secret_len > SSS_MAX_SECRET_SIZE
         THEN SSS_ERR_INVALID_PARAM
    ELSE IF num_shares > SSS_MAX_SHARES \/ num_shares = 0
         THEN SSS_ERR_INVALID_SHARES
    ELSE IF threshold < SSS_MIN_THRESHOLD THEN SSS_ERR_INVALID_THRESHOLD
    ELSE IF threshold > num_shares THEN SSS_ERR_INVALID_THRESHOLD
    ELSE SSS_OK

\* variant of validate_share_params that reports a threshold above num_shares
\* as SSS_ERR_INVALID_SHARES
validate_share_params_wrong_code(secret_null, secret_len, threshold, num_shares, shares_null) ==
    IF secret_null \/ shares_null THEN SSS_ERR_INVALID_PARAM
    ELSE IF secret_len = 0 \/ secret_len > SSS_MAX_SECRET_SIZE
         THEN SSS_ERR_INVALID_PARAM
    ELSE IF threshold < SSS_MIN_THRESHOLD THEN SSS_ERR_INVALID_THRESHOLD
    ELSE IF threshold > num_shares THEN SSS_ERR_INVALID_SHARES
    ELSE IF num_shares > SSS_MAX_SHARES \/ num_shares = 0
         THEN SSS_ERR_INVALID_SHARES
    ELSE SSS_OK

validate_share_params(secret_null, secret_len, threshold, num_shares, shares_null) ==
    IF secret_null \/ shares_null THEN SSS_ERR_INVALID_PARAM
    ELSE IF secret_len = 0 \/ secret_len > SSS_MAX_SECRET_SIZE
         THEN SSS_ERR_INVALID_PARAM
    ELSE IF threshold < SSS_MIN_THRESHOLD THEN SSS_ERR_INVALID_THRESHOLD
    ELSE IF threshold > num_shares THEN SSS_ERR_INVALID_THRESHOLD
    ELSE IF num_shares > SSS_MAX_SHARES \/ num_shares = 0
         THEN SSS_ERR_INVALID_SHARES
    ELSE SSS_OK

\* the per-byte loop of sss_create_shares, as far as the polynomials go: the
\* results of sss_polynomial_create for byte_idx, byte_idx+1, ... up to and
\* including the first one that fails
RECURSIVE split_polys(_, _, _, _, _, _)
split_polys(secret, byte_idx, secret_len, degree, tape, pos) ==
    IF byte_idx < secret_len
    THEN LET r == sss_polynomial_create(secret[byte_idx], degree, tape, pos)
         IN  IF r.rc # 0 THEN <<r>>
             ELSE <<r>> \o split_polys(secret, byte_idx + 1, secret_len,
                                       degree, tape, r.pos)
    ELSE <<>>

\* sss_create_shares: [rc, shares, oob, pos, temps].  secret and shares are
\* the caller's arrays, indexed from 0; pos is the tape position on entry and
\* on return.  A store to data[j] with j >= SSS_SHARE_DATA_SIZE leaves the
\* array: it is reported in oob.  The temporary is poly, wiped at the end of
\* every pass of the loop over the secret's bytes.
sss_create_shares(secret_null, secret, secret_len, threshold, num_shares, shares_null, shares, tape, pos) ==
    LET result == validate_share_params(secret_null, secret_len, threshold,
                                        num_shares, shares_null)
    IN  IF result # SSS_OK
        THEN [rc |-> result, shares |-> shares, oob |-> {}, pos |-> pos,
              temps |-> <<>>]
        ELSE
        LET polys  == split_polys(secret, 0, secret_len, threshold - 1, tape, pos)
            failed == polys # <<>> /\ polys[Len(polys)].rc # 0
            done   == IF failed THEN Len(polys) - 1 ELSE Len(polys)
        IN  [rc |-> IF failed THEN SSS_ERR_CRYPTO ELSE SSS_OK,
             shares |->
                [i \in DOMAIN shares |->
                    IF i < num_shares
                    THEN [index |-> (i + 1) % 256,
                          threshold |-> threshold,
                          data_len |-> secret_len,
                          data |-> [j \in 0..(SSS_SHARE_DATA_SIZE - 1) |->
                                      IF j < done
                                      THEN sss_polynomial_evaluate(
                                               polys[j + 1].poly, (i + 1) % 256)
                                      ELSE 0]]
                    ELSE shares[i]],
             oob |-> SSS_SHARE_DATA_SIZE .. (done - 1),
             pos |-> IF polys = <<>> THEN pos ELSE polys[Len(polys)].pos,
             temps |->
                IF done = 0 THEN <<>>
                ELSE <<[name |-> "poly", kind |-> "bytes",
                        held |-> SSS_MAX_POLYNOMIAL_DEGREE + 1,
                        left |-> sss_polynomial_wipe(polys[done].poly).coefficients]>>]

\* variant of combine_too_few that is off by one
combine_too_few_off_by_one(shares, num_shares) ==
    num_shares < shares[0].threshold - 1

\* "Check we have enough shares"
combine_too_few(shares, num_shares) == num_shares < shares[0].threshold

\* "Check all shares have same threshold and data length"
combine_mismatch(shares, num_shares) ==
    \E i \in 1..(num_shares - 1) :
        \/ shares[i].threshold # shares[0].threshold
        \/ shares[i].data_len # shares[0].data_len

\* variant of combine_duplicate that compares neighbours only
combine_duplicate_adjacent(shares, num_shares) ==
    \E i \in 0..(num_shares - 1) : \E j \in {i + 1} \cap (0..(num_shares - 1)) :
        shares[i].index = shares[j].index

\* "Check for duplicate share indices"
combine_duplicate(shares, num_shares) ==
    \E i \in 0..(num_shares - 1) : \E j \in (i + 1)..(num_shares - 1) :
        shares[i].index = shares[j].index

\* a read of share.data[j]; past the array it yields whatever lies there
share_data(share, j, garbage) ==
    IF j < SSS_SHARE_DATA_SIZE THEN share.data[j] ELSE garbage

\* sss_combine_shares: [rc, secret, secret_len].  shares is the array passed
\* (index 0..num_shares-1), secret the output buffer, secret_len the value of
\* *secret_len on entry.
sss_combine_shares(args_null, shares, num_shares, secret, secret_len, garbage) ==
    LET fail(code) == [rc |-> code, secret |-> secret, secret_len |-> secret_len]
    IN  IF args_null THEN fail(SSS_ERR_INVALID_PARAM)
        ELSE IF num_shares = 0 THEN fail(SSS_ERR_INVALID_SHARES)
        ELSE IF combine_too_few(shares, num_shares) THEN fail(SSS_ERR_INVALID_SHARES)
        ELSE IF combine_mismatch(shares, num_shares) THEN fail(SSS_ERR_INVALID_SHARES)
        ELSE IF combine_duplicate(shares, num_shares) THEN fail(SSS_ERR_DUPLICATE_SHARE)
        ELSE IF secret_len < shares[0].data_len THEN fail(SSS_ERR_BUFFER_TOO_SMALL)
        ELSE
        LET data_len == shares[0].data_len
            points_x == [i \in 0..(num_shares - 1) |-> shares[i].index]
        IN  [rc |-> SSS_OK,
             secret |->
                [byte_idx \in DOMAIN secret |->
                    IF byte_idx < data_len
                    THEN sss_polynomial_interpolate(
                            points_x,
                            [i \in 0..(num_shares - 1) |->
                                share_data(shares[i], byte_idx, garbage)],
                            num_shares)
                    ELSE secret[byte_idx]],
             secret_len |-> data_len]

(***************************************************************************)
(* The MPC layer (mpc.c)                                                   *)
(***************************************************************************)
MPC_OK == 0
MPC_FAIL == -1

\* an mpc_context_t whose bytes are all zero
ZeroContext ==
    [num_parties |-> 0, threshold |-> 0, computation_id |-> 0, value_size |-> 0]

\* an mpc_share_t whose bytes are all zero
ZeroMpcShare == [share |-> ZeroShare, party_id |-> 0, computation_id |-> 0]

\* an mpc_share_t of a fresh array: no field has been set yet
PoisonMpcShare ==
    [share |-> PoisonShare, party_id |-> FillByte, computation_id |-> FillByte]

sss_random_byte(tape, pos) == randombytes_buf(tape, pos)

\* sodium_memzero(share, sizeof(sss_share_t)): the share after the call
sss_wipe_share(share_null, share) == IF share_null THEN share ELSE ZeroShare

\* variant of mpc_wipe_share that stops after wiping the SSS share
mpc_wipe_share_inner_only(share_null, share) ==
    IF share_null THEN share
    ELSE [share EXCEPT !.share = sss_wipe_share(FALSE, share.share)]

\* mpc_wipe_share: the share after the call; the second wipe covers the
\* whole mpc_share_t
mpc_wipe_share(share_null, share) ==
    IF share_null THEN share
    ELSE LET inner == [share EXCEPT !.share = sss_wipe_share(FALSE, share.share)]
         IN  [f \in DOMAIN inner |-> ZeroMpcShare[f]]

\* mpc_cleanup_context: the context after the call
mpc_cleanup_context(ctx_null, ctx) == IF ctx_null THEN ctx ELSE ZeroContext

\* variant of mpc_init_context that takes SSS_MAX_SECRET_SIZE as too large
mpc_init_context_size_exclusive(ctx_null, ctx, num_parties, threshold, value_size, tape, pos) ==
    IF \/ ctx_null
       \/ num_parties < 2 \/ num_parties > 255
       \/ threshold < 2 \/ threshold > num_parties
       \/ value_size = 0 \/ value_size >= SSS_MAX_SECRET_SIZE
    THEN [rc |-> MPC_FAIL, ctx |-> ctx, pos |-> pos]
    ELSE [rc |-> MPC_OK,
          ctx |-> [num_parties |-> num_parties, threshold |-> threshold,
                   value_size |-> value_size,
                   computation_id |-> sss_random_byte(tape, pos)],
          pos |-> pos + 1]

\* mpc_init_context: [rc, ctx, pos]
mpc_init_context(ctx_null, ctx, num_parties, threshold, value_size, tape, pos) ==
    IF \/ ctx_null
       \/ num_parties < 2 \/ num_parties > 255
       \/ threshold < 2 \/ threshold > num_parties
       \/ value_size = 0 \/ value_size > SSS_MAX_SECRET_SIZE
    THEN [rc |-> MPC_FAIL, ctx |-> ctx, pos |-> pos]
    ELSE [rc |-> MPC_OK,
          ctx |-> [num_parties |-> num_parties, threshold |-> threshold,
                   value_size |-> value_size,
                   computation_id |-> sss_random_byte(tape, pos)],
          pos |-> pos + 1]

\* variant of mpc_validate_share that turns the last party down
mpc_validate_share_last_party_out(args_null, ctx, share) ==
    IF args_null THEN MPC_FAIL
    ELSE IF share.party_id < 1 \/ share.party_id >= ctx.num_parties THEN MPC_FAIL
    ELSE IF share.computation_id # ctx.computation_id THEN MPC_FAIL
    ELSE IF share.share.data_len # ctx.value_size THEN MPC_FAIL
    ELSE MPC_OK

mpc_validate_share(args_null, ctx, share) ==
    IF args_null THEN MPC_FAIL
    ELSE IF share.party_id < 1 \/ share.party_id > ctx.num_parties THEN MPC_FAIL
    ELSE IF share.computation_id # ctx.computation_id THEN MPC_FAIL
    ELSE IF share.share.data_len # ctx.value_size THEN MPC_FAIL
    ELSE MPC_OK

\* variant of wrap_share that numbers the parties from 0
wrap_share_zero_based(ctx, sss_share, i) ==
    [share |-> sss_share, party_id |-> i, computation_id |-> ctx.computation_id]

\* "Wrap SSS shares into MPC shares": entry i of the output of mpc_create_shares
wrap_share(ctx, sss_share, i) ==
    [share |-> sss_share, party_id |-> (i + 1) % 256,
     computation_id |-> ctx.computation_id]

\* the temporary sss_shares of mpc_create_shares and mpc_reconstruct: an
\* array obtained from malloc, of which the first held entries were stored,
\* handed to secure_wipe before free on every path
sss_shares_temp(array, held) ==
    [name |-> "sss_shares", kind |-> "sss_shares", held |-> held,
     left |-> secure_wipe(array, ZeroShare)]

\* mpc_create_shares: [rc, shares, oob, pos, temps]; shares is the caller's
\* array
mpc_create_shares(args_null, ctx, secret, shares, tape, pos) ==
    IF args_null
    THEN [rc |-> MPC_FAIL, shares |-> shares, oob |-> {}, pos |-> pos,
          temps |-> <<>>]
    ELSE
    LET r == sss_create_shares(FALSE, secret, ctx.value_size, ctx.threshold,
                ctx.num_parties, FALSE,
                [i \in 0..(ctx.num_parties - 1) |-> PoisonShare], tape, pos)
    IN  IF r.rc # SSS_OK
        THEN [rc |-> MPC_FAIL, shares |-> shares, oob |-> r.oob, pos |-> r.pos,
              temps |-> r.temps \o <<sss_shares_temp(r.shares, 0)>>]
        ELSE [rc |-> MPC_OK,
              shares |-> [i \in DOMAIN shares |->
                            IF i < ctx.num_parties
                            THEN wrap_share(ctx, r.shares[i], i)
                            ELSE shares[i]],
              oob |-> r.oob, pos |-> r.pos,
              temps |-> r.temps \o <<sss_shares_temp(r.shares, ctx.num_parties)>>]

\* "if (num_shares < ctx->threshold)" of mpc_reconstruct
reconstruct_too_few(ctx, num_shares) == num_shares < ctx.threshold

\* mpc_reconstruct: [rc, reconstructed, stored, temps].  shares is the array
\* passed (index 0..num_shares-1), reconstructed the caller's buffer, stored
\* the number of bytes that sss_combine_shares stores through the pointer
\* reconstructed: secret[0..data_len), whatever the buffer's size.
mpc_reconstruct(args_null, ctx, shares, num_shares, reconstructed, garbage) ==
    LET extracted == [i \in 0..(num_shares - 1) |-> shares[i].share]
        rejected == {i \in 0..(num_shares - 1) :
                        mpc_validate_share(FALSE, ctx, shares[i]) # 0}
    IN  IF args_null
        THEN [rc |-> MPC_FAIL, reconstructed |-> reconstructed, stored |-> 0,
              temps |-> <<>>]
        ELSE IF reconstruct_too_few(ctx, num_shares)
        THEN [rc |-> MPC_FAIL, reconstructed |-> reconstructed, stored |-> 0,
              temps |-> <<>>]
        ELSE IF rejected # {}
        THEN [rc |-> MPC_FAIL, reconstructed |-> reconstructed, stored |-> 0,
              temps |-> <<sss_shares_temp(extracted, Least(rejected))>>]
        ELSE
        CHOOSE result \in
            {[rc |-> IF r.rc = SSS_OK THEN MPC_OK ELSE MPC_FAIL,
              reconstructed |-> r.secret,
              stored |-> IF r.rc = SSS_OK THEN r.secret_len ELSE 0,
              temps |-> <<sss_shares_temp(extracted, num_shares)>>] :
                r \in {sss_combine_shares(FALSE, extracted, num_shares,
                            reconstructed, ctx.value_size, garbage)}} : TRUE

\* variant of pair_rejected that does not compare the party ids
pair_rejected_any_party(ctx, x, y) ==
    \/ mpc_validate_share(FALSE, ctx, x) # 0
    \/ mpc_validate_share(FALSE, ctx, y) # 0
    \/ x.share.data_len # y.share.data_len

\* the checks that mpc_secure_add, mpc_secure_sub and mpc_secure_mul make on
\* the pair of input shares at one position
pair_rejected(ctx, x, y) ==
    \/ mpc_validate_share(FALSE, ctx, x) # 0
    \/ mpc_validate_share(FALSE, ctx, y) # 0
    \/ x.party_id # y.party_id
    \/ x.share.data_len # y.share.data_len

\* the bytes data[0..data_len) that an operation stores; the other bytes of
\* the output share keep what they held
store_data(old, data_len, value) ==
    [j \in 0..(SSS_SHARE_DATA_SIZE - 1) |->
        IF j < data_len THEN value[j] ELSE old.share.data[j]]

\* variant of secure_add_share that adds the bytes as integers
secure_add_share_integer(ctx, x, y, old) ==
    LET sum == [j \in 0..(SSS_SHARE_DATA_SIZE - 1) |->
                    (x.share.data[j] + y.share.data[j]) % 256]
    IN  [party_id |-> x.party_id,
         computation_id |-> ctx.computation_id,
         share |-> [index |-> x.share.index,
                    data_len |-> x.share.data_len,
                    threshold |-> x.share.threshold,
                    data |-> store_data(old, x.share.data_len, sum)]]

\* the output share that mpc_secure_add writes at one position
secure_add_share(ctx, x, y, old) ==
    LET sum == [j \in 0..(SSS_SHARE_DATA_SIZE - 1) |->
                    gf256_add(x.share.data[j], y.share.data[j])]
    IN  [party_id |-> x.party_id,
         computation_id |-> ctx.computation_id,
         share |-> [index |-> x.share.index,
                    data_len |-> x.share.data_len,
                    threshold |-> x.share.threshold,
                    data |-> store_data(old, x.share.data_len, sum)]]

RECURSIVE secure_add_loop(_, _, _, _, _, _)
secure_add_loop(ctx, shares_x, shares_y, shares_sum, num_shares, i) ==
    IF i >= num_shares THEN [rc |-> MPC_OK, shares |-> shares_sum]
    ELSE IF pair_rejected(ctx, shares_x[i], shares_y[i])
    THEN [rc |-> MPC_FAIL, shares |-> shares_sum]
    ELSE secure_add_loop(ctx, shares_x, shares_y,
            [shares_sum EXCEPT
                ![i] = secure_add_share(ctx, shares_x[i], shares_y[i], @)],
            num_shares, i + 1)

\* mpc_secure_add: [rc, shares]; shares is the caller's shares_sum array
mpc_secure_add(args_null, ctx, shares_x, shares_y, shares_sum, num_shares) ==
    IF args_null \/ num_shares = 0
    THEN [rc |-> MPC_FAIL, shares |-> shares_sum]
    ELSE secure_add_loop(ctx, shares_x, shares_y, shares_sum, num_shares, 0)

\* variant of secure_sub_share that subtracts the bytes as integers
secure_sub_share_integer(ctx, x, y, old) ==
    LET diff == [j \in 0..(SSS_SHARE_DATA_SIZE - 1) |->
                    (256 + x.share.data[j] - y.share.data[j]) % 256]
    IN  [party_id |-> x.party_id,
         computation_id |-> ctx.computation_id,
         share |-> [index |-> x.share.index,
                    data_len |-> x.share.data_len,
                    threshold |-> x.share.threshold,
                    data |-> store_data(old, x.share.data_len, diff)]]

\* the output share that mpc_secure_sub writes at one position
secure_sub_share(ctx, x, y, old) ==
    LET diff == [j \in 0..(SSS_SHARE_DATA_SIZE - 1) |->
                    gf256_sub(x.share.data[j], y.share.data[j])]
    IN  [party_id |-> x.party_id,
         computation_id |-> ctx.computation_id,
         share |-> [index |-> x.share.index,
                    data_len |-> x.share.data_len,
                    threshold |-> x.share.threshold,
                    data |-> store_data(old, x.share.data_len, diff)]]

RECURSIVE secure_sub_loop(_, _, _, _, _, _)
secure_sub_loop(ctx, shares_x, shares_y, shares_diff, num_shares, i) ==
    IF i >= num_shares THEN [rc |-> MPC_OK, shares |-> shares_diff]
    ELSE IF pair_rejected(ctx, shares_x[i], shares_y[i])
    THEN [rc |-> MPC_FAIL, shares |-> shares_diff]
    ELSE secure_sub_loop(ctx, shares_x, shares_y,
            [shares_diff EXCEPT
                ![i] = secure_sub_share(ctx, shares_x[i], shares_y[i], @)],
            num_shares, i + 1)

\* mpc_secure_sub: [rc, shares]
mpc_secure_sub(args_null, ctx, shares_x, shares_y, shares_diff, num_shares) ==
    IF args_null \/ num_shares = 0
    THEN [rc |-> MPC_FAIL, shares |-> shares_diff]
    ELSE secure_sub_loop(ctx, shares_x, shares_y, shares_diff, num_shares, 0)

\* variant of secure_mul_const_share that multiplies the bytes as integers
secure_mul_const_share_integer(ctx, x, constant, old) ==
    LET prod == [j \in 0..(SSS_SHARE_DATA_SIZE - 1) |->
                    (x.share.data[j] * constant) % 256]
    IN  [party_id |-> x.party_id,
         computation_id |-> ctx.computation_id,
         share |-> [index |-> x.share.index,
                    data_len |-> x.share.data_len,
                    threshold |-> x.share.threshold,
                    data |-> store_data(old, x.share.data_len, prod)]]

\* the output share that mpc_secure_mul_const writes at one position
secure_mul_const_share(ctx, x, constant, old) ==
    LET prod == [j \in 0..(SSS_SHARE_DATA_SIZE - 1) |->
                    gf256_mul(x.share.data[j], constant)]
    IN  [party_id |-> x.party_id,
         computation_id |-> ctx.computation_id,
         share |-> [index |-> x.share.index,
                    data_len |-> x.share.data_len,
                    threshold |-> x.share.threshold,
                    data |-> store_data(old, x.share.data_len, prod)]]

RECURSIVE secure_mul_const_loop(_, _, _, _, _, _)
secure_mul_const_loop(ctx, shares_x, constant, shares_prod, num_shares, i) ==
    IF i >= num_shares THEN [rc |-> MPC_OK, shares |-> shares_prod]
    ELSE IF mpc_validate_share(FALSE, ctx, shares_x[i]) # 0
    THEN [rc |-> MPC_FAIL, shares |-> shares_prod]
    ELSE secure_mul_const_loop(ctx, shares_x, constant,
            [shares_prod EXCEPT
                ![i] = secure_mul_const_share(ctx, shares_x[i], constant, @)],
            num_shares, i + 1)

\* mpc_secure_mul_const: [rc, shares]
mpc_secure_mul_const(args_null, ctx, shares_x, constant, shares_prod, num_shares) ==
    IF args_null \/ num_shares = 0
    THEN [rc |-> MPC_FAIL, shares |-> shares_prod]
    ELSE secure_mul_const_loop(ctx, shares_x, constant, shares_prod, num_shares, 0)

\* variant of mul_intermediate that adds the two shares' bytes
mul_intermediate_added(ctx, x, y, data_len) ==
    LET prod == [j \in 0..(SSS_SHARE_DATA_SIZE - 1) |->
                    gf256_add(x.share.data[j], y.share.data[j])]
    IN  [party_id |-> x.party_id,
         computation_id |-> ctx.computation_id,
         share |-> [index |-> x.share.index,
                    data_len |-> data_len,
                    threshold |-> ctx.threshold,
                    data |-> store_data(PoisonMpcShare, data_len, prod)]]

\* "Step 2: local multiplication": entry of the intermediate array for one
\* party; secure_malloc hands out memory whose bytes are not set
mul_intermediate(ctx, x, y, data_len) ==
    LET prod == [j \in 0..(SSS_SHARE_DATA_SIZE - 1) |->
                    gf256_mul(x.share.data[j], y.share.data[j])]
    IN  [party_id |-> x.party_id,
         computation_id |-> ctx.computation_id,
         share |-> [index |-> x.share.index,
                    data_len |-> data_len,
                    threshold |-> ctx.threshold,
                    data |-> store_data(PoisonMpcShare, data_len, prod)]]

\* mpc_secure_mul: [rc, shares, oob, pos, temps]; shares is the caller's
\* shares_prod.  The temporaries intermediate and product come from
\* secure_malloc and go back through secure_free on every path.
mpc_secure_mul(args_null, ctx, shares_x, shares_y, shares_prod, num_shares, tape, pos) ==
    LET fail == [rc |-> MPC_FAIL, shares |-> shares_prod, oob |-> {}, pos |-> pos,
                 temps |-> <<>>]
    IN  IF args_null THEN fail
        ELSE IF num_shares = 0 \/ num_shares < ctx.threshold THEN fail
        ELSE IF \E i \in 0..(num_shares - 1) :
                    pair_rejected(ctx, shares_x[i], shares_y[i])
        THEN fail
        ELSE
        \* (the sets of one element bind intermediate and recon as values)
        LET data_len == shares_x[0].share.data_len
        IN  CHOOSE reshare_result \in
                {LET own == <<[name |-> "intermediate", kind |-> "mpc_shares",
                               held |-> num_shares,
                               left |-> secure_free(step.intermediate, ZeroMpcShare)],
                              [name |-> "product", kind |-> "bytes",
                               held |-> step.recon.stored,
                               left |-> secure_free(step.recon.reconstructed, 0)]>>
                 IN  IF step.recon.rc # 0
                     THEN [fail EXCEPT !.temps = step.recon.temps \o own]
                     ELSE [mpc_create_shares(FALSE, ctx, step.recon.reconstructed,
                                             shares_prod, tape, pos)
                              EXCEPT !.temps = step.recon.temps \o @ \o own] :
                    step \in
                        {[intermediate |-> intermediate,
                          recon |-> mpc_reconstruct(FALSE, ctx, intermediate,
                                        num_shares, FreshBuffer(data_len), FillByte)] :
                            intermediate \in
                                {[i \in 0..(num_shares - 1) |->
                                    mul_intermediate(ctx, shares_x[i],
                                                     shares_y[i], data_len)]}}} :
                TRUE

\* the array temp of mpc_secure_sum after a call of mpc_secure_add that
\* returned added into it: the entries before the first one that was turned
\* down are stored, and nothing wipes the array
sum_temp(added) ==
    LET unset == {i \in DOMAIN added.shares : added.shares[i] = PoisonMpcShare}
    IN  [name |-> "temp", kind |-> "mpc_shares",
         held |-> IF unset = {} THEN Cardinality(DOMAIN added.shares)
                  ELSE Least(unset),
         left |-> added.shares]

\* the loop "Add each subsequent value" of mpc_secure_sum for val..num_values-1;
\* temps is the array temp as the last pass of the loop left it
RECURSIVE secure_sum_loop(_, _, _, _, _, _)
secure_sum_loop(ctx, share_sets, num_values, num_shares, shares_sum, val) ==
    IF val >= num_values
    THEN [rc |-> MPC_OK, shares |-> shares_sum, temps |-> <<>>]
    ELSE
    CHOOSE result \in
        {IF temp.rc # 0
         THEN [rc |-> MPC_FAIL, shares |-> shares_sum, temps |-> <<sum_temp(temp)>>]
         ELSE [secure_sum_loop(ctx, share_sets, num_values, num_shares,
                 [i \in DOMAIN shares_sum |->
                     IF i < num_shares THEN temp.shares[i] ELSE shares_sum[i]],
                 val + 1)
                 EXCEPT !.temps = IF @ = <<>> THEN <<sum_temp(temp)>> ELSE @] :
            temp \in
                {mpc_secure_add(FALSE, ctx, shares_sum, share_sets[val],
                    [i \in 0..(num_shares - 1) |-> PoisonMpcShare], num_shares)}} :
        TRUE

\* variant of mpc_secure_sum whose loop starts at the third set
mpc_secure_sum_skips_second(args_null, ctx, share_sets, num_values, num_shares, shares_sum) ==
    IF args_null \/ num_values = 0 \/ num_shares = 0
    THEN [rc |-> MPC_FAIL, shares |-> shares_sum, temps |-> <<>>]
    ELSE secure_sum_loop(ctx, share_sets, num_values, num_shares,
            [i \in DOMAIN shares_sum |->
                IF i < num_shares THEN share_sets[0][i] ELSE shares_sum[i]],
            2)

\* mpc_secure_sum: [rc, shares, temps].  share_sets[v] is the v-th array
\* passed (v from 0), shares_sum the caller's output array.
mpc_secure_sum(args_null, ctx, share_sets, num_values, num_shares, shares_sum) ==
    IF args_null \/ num_values = 0 \/ num_shares = 0
    THEN [rc |-> MPC_FAIL, shares |-> shares_sum, temps |-> <<>>]
    ELSE secure_sum_loop(ctx, share_sets, num_values, num_shares,
            [i \in DOMAIN shares_sum |->
                IF i < num_shares THEN share_sets[0][i] ELSE shares_sum[i]],
            1)

\* a call of mpc_reconstruct that was not made
NotCalled ==
    [rc |-> MPC_FAIL, reconstructed |-> FreshBuffer(1), stored |-> 0,
     temps |-> <<>>]

\* a local uint8_t that mpc_reconstruct was given the address of: the byte it
\* holds when the function returns; nothing wipes it
byte_temp(name, recon) ==
    [name |-> name, kind |-> "bytes",
     held |-> IF recon.stored > 0 THEN 1 ELSE 0,
     left |-> recon.reconstructed]

\* the store that a call of mpc_reconstruct made through the address of a
\* target of size bytes: len bytes from the target's first byte on
target_store(name, size, recon) == [name |-> name, size |-> size, len |-> recon.stored]

\* variant of mpc_secure_average that divides in the field
mpc_secure_average_field_division(average_null, args_null, ctx, share_sets, num_values, num_shares, average) ==
    IF average_null \/ num_shares = 0
    THEN [rc |-> MPC_FAIL, average |-> average, temps |-> <<>>, stores |-> <<>>]
    ELSE
    CHOOSE result \in
        {LET shares_sum == step.shares_sum
             sum == step.sum
             own == <<[name |-> "shares_sum", kind |-> "mpc_shares",
                       held |-> IF args_null \/ num_values = 0 THEN 0
                                ELSE num_shares,
                       left |-> secure_free(shares_sum.shares, ZeroMpcShare)],
                      byte_temp("sum", sum)>>
             made == IF shares_sum.rc # 0 THEN <<>>
                     ELSE <<target_store("sum", 1, sum)>>
         IN  [rc |-> IF sum.rc # 0 THEN MPC_FAIL ELSE MPC_OK,
              average |-> IF sum.rc # 0 THEN average
                          ELSE gf256_div(sum.reconstructed[0], num_values),
              temps |-> shares_sum.temps \o sum.temps \o own,
              stores |-> made] :
            step \in
                {[shares_sum |-> shares_sum,
                  sum |-> IF shares_sum.rc # 0 THEN NotCalled
                          ELSE mpc_reconstruct(FALSE, ctx, shares_sum.shares,
                                   num_shares, FreshBuffer(1), FillByte)] :
                    shares_sum \in
                        {mpc_secure_sum(args_null, ctx, share_sets, num_values,
                            num_shares,
                            [i \in 0..(num_shares - 1) |-> PoisonMpcShare])}}} :
        TRUE

\* variant of mpc_secure_average that clears *average when the sum fails
mpc_secure_average_clears_output(average_null, args_null, ctx, share_sets, num_values, num_shares, average) ==
    IF average_null \/ num_shares = 0
    THEN [rc |-> MPC_FAIL, average |-> average, temps |-> <<>>, stores |-> <<>>]
    ELSE
    CHOOSE result \in
        {LET shares_sum == step.shares_sum
             sum == step.sum
             own == <<[name |-> "shares_sum", kind |-> "mpc_shares",
                       held |-> IF args_null \/ num_values = 0 THEN 0
                                ELSE num_shares,
                       left |-> secure_free(shares_sum.shares, ZeroMpcShare)],
                      byte_temp("sum", sum)>>
             made == IF shares_sum.rc # 0 THEN <<>>
                     ELSE <<target_store("sum", 1, sum)>>
         IN  [rc |-> IF sum.rc # 0 THEN MPC_FAIL ELSE MPC_OK,
              average |-> IF sum.rc # 0 THEN 0
                          ELSE sum.reconstructed[0] \div num_values,
              temps |-> shares_sum.temps \o sum.temps \o own,
              stores |-> made] :
            step \in
                {[shares_sum |-> shares_sum,
                  sum |-> IF shares_sum.rc # 0 THEN NotCalled
                          ELSE mpc_reconstruct(FALSE, ctx, shares_sum.shares,
                                   num_shares, FreshBuffer(1), FillByte)] :
                    shares_sum \in
                        {mpc_secure_sum(args_null, ctx, share_sets, num_values,
                            num_shares,
                            [i \in 0..(num_shares - 1) |-> PoisonMpcShare])}}} :
        TRUE

\* mpc_secure_average: [rc, average, temps, stores]; average is the caller's
\* byte, args_null says that ctx or share_sets is NULL.  The sum is
\* reconstructed into one local byte.  secure_malloc(0) returns NULL.
mpc_secure_average(average_null, args_null, ctx, share_sets, num_values, num_shares, average) ==
    IF average_null \/ num_shares = 0
    THEN [rc |-> MPC_FAIL, average |-> average, temps |-> <<>>, stores |-> <<>>]
    ELSE
    CHOOSE result \in
        {LET shares_sum == step.shares_sum
             sum == step.sum
             own == <<[name |-> "shares_sum", kind |-> "mpc_shares",
                       held |-> IF args_null \/ num_values = 0 THEN 0
                                ELSE num_shares,
                       left |-> secure_free(shares_sum.shares, ZeroMpcShare)],
                      byte_temp("sum", sum)>>
             made == IF shares_sum.rc # 0 THEN <<>>
                     ELSE <<target_store("sum", 1, sum)>>
         IN  [rc |-> IF sum.rc # 0 THEN MPC_FAIL ELSE MPC_OK,
              average |-> IF sum.rc # 0 THEN average
                          ELSE sum.reconstructed[0] \div num_values,
              temps |-> shares_sum.temps \o sum.temps \o own,
              stores |-> made] :
            step \in
                {[shares_sum |-> shares_sum,
                  sum |-> IF shares_sum.rc # 0 THEN NotCalled
                          ELSE mpc_reconstruct(FALSE, ctx, shares_sum.shares,
                                   num_shares, FreshBuffer(1), FillByte)] :
                    shares_sum \in
                        {mpc_secure_sum(args_null, ctx, share_sets, num_values,
                            num_shares,
                            [i \in 0..(num_shares - 1) |-> PoisonMpcShare])}}} :
        TRUE

\* variant of max_exceeds that lets a later equal value win
max_exceeds_or_ties(value, max_val) == value >= max_val

\* "if (values[i] > max_val)" of mpc_secure_max
max_exceeds(value, max_val) == value > max_val

\* the loop "Find maximum" for i..num_values-1: <<max_val, max_idx>>
RECURSIVE max_scan(_, _, _, _, _)
max_scan(values, num_values, i, max_val, max_idx) ==
    IF i >= num_values THEN <<max_val, max_idx>>
    ELSE IF max_exceeds(values[i], max_val)
    THEN max_scan(values, num_values, i + 1, values[i], i)
    ELSE max_scan(values, num_values, i + 1, max_val, max_idx)

\* the concatenation of a sequence of sequences
RECURSIVE Flatten(_)
Flatten(seqs) == IF seqs = <<>> THEN <<>> ELSE Head(seqs) \o Flatten(Tail(seqs))

\* mpc_secure_max: [rc, maximum, max_index, temps, stores]; maximum and
\* max_index are the caller's bytes, max_index may be NULL.  Each value is
\* reconstructed into one byte of the array values, which comes from
\* secure_malloc and goes back through secure_free on every path.
mpc_secure_max(args_null, ctx, share_sets, num_values, num_shares, maximum, max_index_null, max_index) ==
    LET fail == [rc |-> MPC_FAIL, maximum |-> maximum, max_index |-> max_index,
                 temps |-> <<>>, stores |-> <<>>]
    IN  IF args_null \/ num_values = 0 \/ num_shares = 0 THEN fail
        ELSE
        CHOOSE result \in
            {LET failed == {i \in 0..(num_values - 1) : recs[i].rc # 0}
                 calls == IF failed = {} THEN num_values ELSE Least(failed) + 1
                 values == [i \in 0..(num_values - 1) |->
                                recs[i].reconstructed[0]]
                 found == max_scan(values, num_values, 1, values[0], 0)
                 own == <<[name |-> "values", kind |-> "bytes",
                           held |-> IF failed = {} THEN num_values
                                    ELSE Least(failed),
                           left |-> secure_free(values, 0)]>>
                 nested == Flatten([k \in 1..calls |-> recs[k - 1].temps])
                 made == [k \in 1..calls |->
                            target_store("values", 1, recs[k - 1])]
             IN  IF failed # {}
                 THEN [fail EXCEPT !.temps = nested \o own, !.stores = made]
                 ELSE [rc |-> MPC_OK, maximum |-> found[1],
                       max_index |-> IF max_index_null THEN max_index
                                     ELSE found[2],
                       temps |-> nested \o own, stores |-> made] :
                recs \in
                    {[i \in 0..(num_values - 1) |->
                        mpc_reconstruct(FALSE, ctx, share_sets[i], num_shares,
                                        FreshBuffer(1), FillByte)]}} :
            TRUE

\* mpc_secure_greater: [rc, result, temps, stores]; result is the caller's
\* byte.  x and y are two local bytes: nothing wipes them.
mpc_secure_greater(args_null, ctx, shares_x, shares_y, num_shares, result) ==
    IF args_null
    THEN [rc |-> MPC_FAIL, result |-> result, temps |-> <<>>, stores |-> <<>>]
    ELSE
    CHOOSE returned \in
        {LET x == step.x
             y == step.y
         IN  [rc |-> IF x.rc # 0 \/ y.rc # 0 THEN MPC_FAIL ELSE MPC_OK,
              result |-> IF x.rc # 0 \/ y.rc # 0 THEN result
                         ELSE IF x.reconstructed[0] > y.reconstructed[0]
                         THEN 1 ELSE 0,
              temps |-> x.temps \o y.temps
                        \o <<byte_temp("x", x), byte_temp("y", y)>>,
              stores |-> IF x.rc # 0 THEN <<target_store("x", 1, x)>>
                         ELSE <<target_store("x", 1, x),
                                target_store("y", 1, y)>>] :
            step \in
                {[x |-> x,
                  y |-> IF x.rc # 0 THEN NotCalled
                        ELSE mpc_reconstruct(FALSE, ctx, shares_y, num_shares,
                                             FreshBuffer(1), FillByte)] :
                    x \in {mpc_reconstruct(FALSE, ctx, shares_x, num_shares,
                                           FreshBuffer(1), FillByte)}}} :
        TRUE

(***************************************************************************)
(* Inputs of the SSS calls                                                 *)
(***************************************************************************)
SecretSeeds == {0, 83}

\* a secret of len bytes
Secret(seed, len) == [j \in 0..(len - 1) |-> (seed + 29 * j) % 256]

\* secret lengths: short ones and the ones around the two size limits
SecretLens ==
    (0..MaxSecretLen) \cup {SSS_SHARE_DATA_SIZE, SSS_SHARE_DATA_SIZE + 1,
                            SSS_MAX_SECRET_SIZE + 1}

\* capacities of the output buffer handed to sss_combine_shares
OutCaps == {0, MaxSecretLen, SSS_SHARE_DATA_SIZE + 1}

\* sequences of at most n array positions: the shares a caller passes on
RECURSIVE Picks(_, _)
Picks(positions, n) ==
    IF n = 0 THEN {<<>>}
    ELSE LET shorter == Picks(positions, n - 1)
         IN  shorter \cup {Append(s, p) : s \in {t \in shorter : Len(t) = n - 1},
                                          p \in positions}

\* the array a caller builds from the picked positions of arr
Gather(arr, sel) == [i \in 0..(Len(sel) - 1) |-> arr[sel[i + 1]]]

FreshShares == [i \in 0..(MaxShares - 1) |-> PoisonShare]

NoneDealt == [secret |-> <<>>, secret_len |-> 0, threshold |-> 0, num_shares |-> 0]

\* the tape position, kept within one cycle of the tape
Advance(tape, pos) == pos % Len(tape)

\* a call of a function that has no temporaries of its own
NoTemps ==
    /\ temps' = <<>>
    /\ stores' = <<>>

SssInit ==
    /\ sss_dealt = NoneDealt
    /\ sss_shares = FreshShares
    /\ sss_oob = {}
    /\ sss_out = [secret |-> FreshBuffer(0), secret_len |-> 0]
    /\ sss_ret = [op |-> "none", rc |-> 0, secret_len |-> 0, threshold |-> 0,
                  num_shares |-> 0, sel |-> <<>>, nulls |-> "none"]

\* the dealer: a call of sss_create_shares on a fresh array
SssCreateShares ==
    /\ pc = "start"
    /\ \E threshold \in 1..(MaxShares + 1), num_shares \in 0..MaxShares,
       seed \in SecretSeeds, len \in SecretLens,
       nulls \in {"none", "secret", "shares"} :
        LET secret == Secret(seed, len)
            returned == sss_create_shares(nulls = "secret", secret, len, threshold,
                                          num_shares, nulls = "shares", sss_shares,
                                          rng.tape, rng.pos)
        IN  \E r \in {returned} :
            /\ pc' = IF r.rc = SSS_OK THEN "dealt" ELSE "done"
            /\ sss_shares' = r.shares
            /\ rng' = [rng EXCEPT !.pos = Advance(rng.tape, r.pos)]
            /\ sss_oob' = r.oob
            /\ sss_dealt' = IF r.rc = SSS_OK
                            THEN [secret |-> secret, secret_len |-> len,
                                  threshold |-> threshold,
                                  num_shares |-> num_shares]
                            ELSE NoneDealt
            /\ sss_ret' = [op |-> "create", rc |-> r.rc, secret_len |-> len,
                           threshold |-> threshold, num_shares |-> num_shares,
                           sel |-> <<>>, nulls |-> nulls]
            /\ temps' = r.temps
            /\ stores' = <<>>
            /\ UNCHANGED sss_out
            /\ UNCHANGED <<mpc_vars, other_vars>>

\* a holder of shares: after the split, a call of sss_combine_shares on
\* shares picked from the array, with a fresh output buffer of cap bytes and
\* *secret_len = cap
SssCombineShares ==
    /\ pc = "dealt"
    /\ pc' = "done"
    /\ \E sel \in Picks(0..(MaxShares - 1), MaxShares), cap \in OutCaps,
       garbage \in {0, 255}, args_null \in BOOLEAN :
        LET returned == sss_combine_shares(args_null, Gather(sss_shares, sel),
                                           Len(sel), FreshBuffer(cap), cap, garbage)
        IN  /\ args_null => (sel = <<>> /\ cap = 0)
            /\ garbage = 0 \/ sss_dealt.secret_len > SSS_SHARE_DATA_SIZE
            /\ \E r \in {returned} :
                /\ sss_out' = [secret |-> r.secret, secret_len |-> r.secret_len]
                /\ sss_ret' = [op |-> "combine", rc |-> r.rc, secret_len |-> cap,
                               threshold |-> 0, num_shares |-> Len(sel),
                               sel |-> sel,
                               nulls |-> IF args_null THEN "args" ELSE "none"]
                /\ NoTemps
                /\ UNCHANGED <<rng, sss_dealt, sss_shares, sss_oob>>
                /\ UNCHANGED <<mpc_vars, other_vars>>

(***************************************************************************)
(* The driver of the MPC layer.  It initialises contexts[1], shares two    *)
(* secrets into x and y, then computes: either a chain of calls on the     *)
(* shares of all parties, each taking the latest result and x or y, or one *)
(* call on the shares of some parties, or one call under a second context, *)
(* contexts[2].  It ends by reconstructing from the latest result.         *)
(***************************************************************************)
Bufs == {"x", "y", "z", "w"}

Consts == {0, 2, 255}

NoVal == <<>>

MpcInit ==
    /\ contexts = [c \in 1..2 |-> ZeroContext]
    /\ mpc_shares = [b \in Bufs |-> [i \in 0..(MaxShares - 1) |-> PoisonMpcShare]]
    /\ mpc_val = [b \in Bufs |-> NoVal]
    /\ mpc_cnt = [b \in Bufs |-> 0]
    /\ mpc_cur = "x"
    /\ mpc_out = FreshBuffer(0)
    /\ mpc_ret = [op |-> "none", ctx |-> 0, rc |-> 0, sel |-> <<>>, a |-> "x",
                  b |-> "x", out |-> "x", constant |-> 0]
    /\ nops = 0

\* the positions 0..n-1 in order
FullSel(n) == [i \in 1..n |-> i - 1]

\* picks without repetition, in any order
InjPicks == {sel \in Picks(0..(MaxShares - 1), MaxShares) :
                \A i \in 1..Len(sel) : \A j \in 1..Len(sel) :
                    sel[i] = sel[j] => i = j}

\* the parties whose shares enter a call: any set of positions in ascending
\* order, or all positions in descending order
PartyPicks ==
    {sel \in InjPicks : \A i \in 1..(Len(sel) - 1) : sel[i] < sel[i + 1]}
    \cup {[i \in 1..MaxShares |-> MaxShares - i]}

\* the shares handed to mpc_reconstruct: the first n, or the first one twice
RevealPicks == {FullSel(n) : n \in 0..MaxShares} \cup {<<0, 0>>}

\* the ways the driver may make an arithmetic call now: under which context,
\* on which positions of the arrays, and where it goes next
OpCalls ==
    (IF pc = "shared" /\ nops < MaxOps
     THEN {[c |-> 1, sel |-> FullSel(contexts[1].num_parties), next |-> "shared"]}
     ELSE {})
    \cup (IF pc = "shared" /\ nops = 0
          THEN {[c |-> 1, sel |-> sel, next |-> "final"] :
                    sel \in PartyPicks \ {FullSel(contexts[1].num_parties)}}
          ELSE {})
    \cup (IF pc = "foreign"
          THEN {[c |-> 2, sel |-> FullSel(contexts[1].num_parties), next |-> "final"]}
          ELSE {})
    \cup (IF pc = "cleaned"
          THEN {[c |-> 1, sel |-> FullSel(mpc_cnt["x"]), next |-> "final"]}
          ELSE {})

\* the call on x and y, entry by entry, once the caller has altered an entry
PairCalls ==
    IF pc = "altered"
    THEN {[c |-> 1, sel |-> FullSel(contexts[1].num_parties), next |-> "final"]}
    ELSE {}

\* the array that receives the next result
OutBuf == IF mpc_cur = "z" THEN "w" ELSE "z"

XorBytes(u, v) ==
    IF u = NoVal \/ v = NoVal THEN NoVal ELSE [j \in DOMAIN u |-> Xor(u[j], v[j])]

MulBytes(u, v) ==
    IF u = NoVal \/ v = NoVal THEN NoVal
    ELSE [j \in DOMAIN u |-> gf256_mul(u[j], v[j])]

ScaleBytes(u, c) == [j \in DOMAIN u |-> gf256_mul(u[j], c)]

\* the state after an arithmetic call that returned r into the array out
Returned(call, op, b, constant, returned, expected, count) ==
    \E r \in {returned} :
        /\ pc' = call.next
        /\ nops' = nops + 1
        /\ mpc_shares' = [mpc_shares EXCEPT ![OutBuf] = r.shares]
        /\ mpc_val' = [mpc_val EXCEPT
                          ![OutBuf] = IF r.rc = 0 THEN expected ELSE NoVal]
        /\ mpc_cnt' = [mpc_cnt EXCEPT ![OutBuf] = IF r.rc = 0 THEN count ELSE 0]
        /\ mpc_cur' = IF r.rc = 0 THEN OutBuf ELSE mpc_cur
        /\ mpc_ret' = [op |-> op, ctx |-> call.c, rc |-> r.rc, sel |-> call.sel,
                       a |-> mpc_cur, b |-> b, out |-> OutBuf,
                       constant |-> constant]
        /\ temps' = IF "temps" \in DOMAIN r THEN r.temps ELSE <<>>
        /\ stores' = <<>>
        /\ UNCHANGED <<contexts, mpc_out>>
        /\ UNCHANGED <<sss_vars, other_vars>>

\* values of the uint8_t arguments num_parties and threshold
PartyCounts == (0..MaxShares) \cup {255}

\* values of the argument value_size
ValueSizes == (0..MaxSecretLen) \cup {SSS_MAX_SECRET_SIZE, SSS_MAX_SECRET_SIZE + 1}

\* mpc_init_context: on contexts[1] at the start, where the computation goes
\* on if the context fits the driver's arrays; on contexts[1] once more after
\* sharing; on contexts[2] after sharing
MpcInitContext ==
    /\ pc = "start" \/ (pc = "shared" /\ nops = 0)
    /\ \E c \in 1..2, ctx_null \in BOOLEAN, num_parties \in PartyCounts,
          threshold \in PartyCounts, value_size \in ValueSizes :
        LET returned == mpc_init_context(ctx_null, contexts[c], num_parties,
                                         threshold, value_size, rng.tape, rng.pos)
            in_driver == /\ ~ctx_null
                         /\ num_parties \in 1..MaxShares
                         /\ threshold \in 1..MaxShares
                         /\ value_size <= MaxSecretLen
        IN  /\ \/ c = 1 /\ pc = "start" /\ pc' = IF in_driver THEN "ctx" ELSE "done"
               \/ /\ c = 1 /\ pc = "shared" /\ nops = 0 /\ pc' = "done"
                  /\ num_parties = 2 /\ threshold \in {2, 3}
                  /\ value_size \in {1, SSS_MAX_SECRET_SIZE + 1}
               \/ /\ c = 2 /\ pc = "shared" /\ nops = 0 /\ pc' = "foreign"
                  /\ threshold = SSS_MIN_THRESHOLD /\ in_driver
            /\ \E r \in {returned} :
                /\ contexts' = [contexts EXCEPT ![c] = r.ctx]
                /\ rng' = [rng EXCEPT !.pos = Advance(rng.tape, r.pos)]
                /\ mpc_ret' = [op |-> "init", ctx |-> c, rc |-> r.rc,
                               sel |-> <<num_parties, threshold, value_size>>,
                               a |-> "x", b |-> "x", out |-> "x",
                               constant |-> IF ctx_null THEN 1 ELSE 0]
                /\ NoTemps
                /\ UNCHANGED <<mpc_shares, mpc_val, mpc_cnt, mpc_cur, mpc_out, nops>>
                /\ UNCHANGED <<sss_vars, other_vars>>

MpcCreateShares ==
    /\ pc \in {"ctx", "has_x", "cleaned"}
    /\ \E seed \in SecretSeeds, out \in {"x", "y"} :
        LET secret == Secret(seed, contexts[1].value_size)
            returned == mpc_create_shares(FALSE, contexts[1], secret,
                                          mpc_shares[out], rng.tape, rng.pos)
        IN  /\ \/ out = "x" /\ pc = "ctx" /\ pc' = "has_x"
               \/ out = "y" /\ pc = "has_x" /\ pc' = "shared"
               \/ out = "x" /\ pc = "cleaned" /\ pc' = "final"
            /\ \E r \in {returned} :
                /\ mpc_shares' = [mpc_shares EXCEPT ![out] = r.shares]
                /\ mpc_val' = [mpc_val EXCEPT ![out] = IF r.rc = 0 THEN secret ELSE NoVal]
                /\ mpc_cnt' = [mpc_cnt EXCEPT
                                  ![out] = IF r.rc = 0 THEN contexts[1].num_parties ELSE 0]
                /\ rng' = [rng EXCEPT !.pos = Advance(rng.tape, r.pos)]
                /\ mpc_ret' = [op |-> "create", ctx |-> 1, rc |-> r.rc, sel |-> <<>>,
                               a |-> "x", b |-> "x", out |-> out, constant |-> 0]
                /\ temps' = r.temps
                /\ stores' = <<>>
                /\ UNCHANGED <<contexts, mpc_cur, mpc_out, nops>>
                /\ UNCHANGED <<sss_vars, other_vars>>

MpcSecureAdd ==
    \E call \in OpCalls \cup PairCalls, b \in {"x", "y"} :
        LET r == mpc_secure_add(FALSE, contexts[call.c],
                    Gather(mpc_shares[mpc_cur], call.sel),
                    Gather(mpc_shares[b], call.sel),
                    mpc_shares[OutBuf], Len(call.sel))
        IN  /\ pc = "altered" => b = "y"
            /\ Returned(call, "add", b, 0, r,
                        XorBytes(mpc_val[mpc_cur], mpc_val[b]), Len(call.sel))
            /\ UNCHANGED rng

MpcSecureSub ==
    \E call \in OpCalls \cup PairCalls, b \in {"x", "y"} :
        LET r == mpc_secure_sub(FALSE, contexts[call.c],
                    Gather(mpc_shares[mpc_cur], call.sel),
                    Gather(mpc_shares[b], call.sel),
                    mpc_shares[OutBuf], Len(call.sel))
        IN  /\ pc = "altered" => b = "y"
            /\ Returned(call, "sub", b, 0, r,
                        XorBytes(mpc_val[mpc_cur], mpc_val[b]), Len(call.sel))
            /\ UNCHANGED rng

MpcSecureMulConst ==
    \E call \in OpCalls, constant \in Consts :
        LET r == mpc_secure_mul_const(FALSE, contexts[call.c],
                    Gather(mpc_shares[mpc_cur], call.sel), constant,
                    mpc_shares[OutBuf], Len(call.sel))
        IN  /\ Returned(call, "mul_const", mpc_cur, constant, r,
                        ScaleBytes(mpc_val[mpc_cur], constant), Len(call.sel))
            /\ UNCHANGED rng

MpcSecureMul ==
    \E call \in OpCalls, b \in {"x", "y"} :
        LET returned == mpc_secure_mul(FALSE, contexts[call.c],
                            Gather(mpc_shares[mpc_cur], call.sel),
                            Gather(mpc_shares[b], call.sel),
                            mpc_shares[OutBuf], Len(call.sel), rng.tape, rng.pos)
        IN  \E r \in {returned} :
                /\ Returned(call, "mul", b, 0, r,
                            MulBytes(mpc_val[mpc_cur], mpc_val[b]),
                            contexts[call.c].num_parties)
                /\ rng' = [rng EXCEPT !.pos = Advance(rng.tape, r.pos)]

\* the XOR of the plaintexts of the arrays named by sets[1..]
RECURSIVE SumVals(_)
SumVals(sets) ==
    IF Len(sets) = 1 THEN mpc_val[sets[1]]
    ELSE XorBytes(SumVals(SubSeq(sets, 1, Len(sets) - 1)), mpc_val[sets[Len(sets)]])

\* mpc_secure_sum is the last call of a computation
MpcSecureSum ==
    \E call \in {[k EXCEPT !.next = "final"] :
                    k \in {k \in OpCalls : k.next = "final" \/ nops = 0}},
       sets \in UNION {[1..v -> {"x", "y"}] : v \in 1..MaxValues} :
        LET r == mpc_secure_sum(FALSE, contexts[call.c],
                    [v \in 0..(Len(sets) - 1) |->
                        Gather(mpc_shares[sets[v + 1]], call.sel)],
                    Len(sets), Len(call.sel), mpc_shares[OutBuf])
        IN  /\ Returned(call, "sum", sets, Len(sets), r, SumVals(sets),
                        Len(call.sel))
            /\ UNCHANGED rng

\* mpc_reconstruct on entries picked from the latest result of the chain,
\* into a fresh buffer of value_size bytes: any of RevealPicks on the shares
\* as created, the first threshold entries after an arithmetic call
MpcReconstruct ==
    /\ pc \in {"shared", "cleaned"}
    /\ \E sel \in RevealPicks, args_null \in BOOLEAN :
        LET c == 1
            returned == mpc_reconstruct(args_null, contexts[c],
                            Gather(mpc_shares[mpc_cur], sel), Len(sel),
                            FreshBuffer(contexts[c].value_size), FillByte)
        IN  /\ args_null => sel = <<>>
            /\ nops = 0 \/ sel = FullSel(contexts[c].threshold)
            /\ pc' = "done"
            /\ \E r \in {returned} :
                /\ mpc_out' = r.reconstructed
                /\ mpc_ret' = [op |-> "reconstruct", ctx |-> c, rc |-> r.rc,
                               sel |-> sel, a |-> mpc_cur, b |-> mpc_cur,
                               out |-> mpc_cur,
                               constant |-> IF args_null THEN 1 ELSE 0]
                /\ temps' = r.temps
                /\ stores' = <<>>
                /\ UNCHANGED <<contexts, mpc_shares, mpc_val, mpc_cnt, mpc_cur, nops, rng>>
                /\ UNCHANGED <<sss_vars, other_vars>>

\* the arrays handed to a call on the sets named by sets, positions sel
ShareSets(sets, sel) ==
    [v \in 0..(Len(sets) - 1) |-> Gather(mpc_shares[sets[v + 1]], sel)]

\* the shares handed to the functions that reveal: the first n, or all in
\* descending order
HighPicks ==
    {FullSel(n) : n \in 0..MaxShares} \cup {[i \in 1..MaxShares |-> MaxShares - i]}

\* the sequences of share sets handed to a function that takes several
SetLists == UNION {[1..v -> {"x", "y"}] : v \in 1..MaxValues}

\* the functions that reveal are called on the shares as created
MayReveal == pc \in {"shared", "cleaned"} /\ nops = 0

\* under a context that holds longer values, or that has been cleaned, the
\* functions that reveal are called on the shares of all parties or on none,
\* and on one set at most
Plain(sel, sets) ==
    \/ pc = "shared" /\ contexts[1].value_size <= 1
    \/ sel \in {<<>>, FullSel(mpc_cnt["x"])} /\ Len(sets) <= 1

\* a store of more bytes than its target has
Overrun(made) == \E k \in 1..Len(made) : made[k].len > made[k].size

\* the state after a call of a function that reveals values, r being what it
\* returns and out what the caller's output bytes hold then.  A call that
\* stored past the end of a target has undefined behaviour: it returns as
\* computed from the target's first byte, or the process is aborted (the
\* stack protector, the guard page after an array from secure_malloc).
Revealed(op, sel, a, b, constant, r, out) ==
    /\ stores' = r.stores
    /\ \/ /\ pc' = "done"
          /\ mpc_out' = out
          /\ temps' = r.temps
          /\ mpc_ret' = [op |-> op, ctx |-> 1, rc |-> r.rc, sel |-> sel, a |-> a,
                         b |-> b, out |-> a, constant |-> constant]
       \/ /\ Overrun(r.stores)
          /\ pc' = "aborted"
          /\ mpc_out' = mpc_out
          /\ temps' = <<>>
          /\ mpc_ret' = [op |-> "abort", ctx |-> 1, rc |-> MPC_FAIL, sel |-> sel,
                         a |-> a, b |-> b, out |-> a, constant |-> constant]
    /\ UNCHANGED <<contexts, mpc_shares, mpc_val, mpc_cnt, mpc_cur, nops, rng>>
    /\ UNCHANGED <<sss_vars, other_vars>>

\* mpc_secure_average on any number of sets, none included; or on x and y
\* and the shares of all parties with one pointer argument NULL
MpcSecureAverage ==
    /\ MayReveal
    /\ \E sel \in HighPicks, sets \in SetLists \cup {<<>>},
          nulls \in {"none", "average", "ctx", "share_sets"} :
        /\ Plain(sel, sets)
        /\ nulls # "none" =>
                /\ sel = FullSel(contexts[1].num_parties) /\ sets = <<"x", "y">>
                /\ pc = "shared"
        /\ \E r \in {mpc_secure_average(nulls = "average",
                            nulls \in {"ctx", "share_sets"}, contexts[1],
                            ShareSets(sets, sel), Len(sets), Len(sel), FillByte)} :
                Revealed(IF nulls = "none" THEN "average" ELSE "average_null",
                         sel, nulls, sets, Len(sets), r,
                         [j \in 0..0 |-> r.average])

\* mpc_secure_max
MpcSecureMax ==
    /\ MayReveal
    /\ \E sel \in HighPicks, sets \in SetLists, max_index_null \in BOOLEAN :
        /\ Plain(sel, sets)
        /\ max_index_null => sel = FullSel(contexts[1].num_parties)
        /\ \E r \in {mpc_secure_max(FALSE, contexts[1], ShareSets(sets, sel),
                            Len(sets), Len(sel), FillByte, max_index_null,
                            FillByte)} :
                Revealed(IF max_index_null THEN "max_only" ELSE "max", sel, "x",
                         sets, Len(sets), r,
                         [j \in 0..1 |-> IF j = 0 THEN r.maximum ELSE r.max_index])

\* mpc_secure_greater
MpcSecureGreater ==
    /\ MayReveal
    /\ \E sel \in HighPicks, a \in {"x", "y"}, b \in {"x", "y"} :
        /\ Plain(sel, <<a>>)
        /\ pc = "cleaned" => b = "y"
        /\ \E r \in {mpc_secure_greater(FALSE, contexts[1],
                        Gather(mpc_shares[a], sel), Gather(mpc_shares[b], sel),
                        Len(sel), FillByte)} :
            Revealed("greater", sel, a, b, 0, r, [j \in 0..0 |-> r.result])

\* mpc_validate_share on one entry of x or y: under either context on the
\* shares as created, under the second context once it is set up, under the
\* first after a wipe
MpcValidateShare ==
    /\ pc \in {"shared", "foreign", "wiped", "cleaned"}
    /\ nops = 0
    /\ \E c \in 1..2, buf \in {"x", "y"}, i \in 0..(MaxShares - 1),
          args_null \in BOOLEAN :
        /\ pc = "foreign" => (c = 2 /\ buf = "x")
        /\ pc \in {"wiped", "cleaned"} => (c = 1 /\ buf = "x")
        /\ args_null => (i = 0 /\ buf = "x")
        /\ pc' = "done"
        /\ \E r \in {mpc_validate_share(args_null, contexts[c], mpc_shares[buf][i])} :
            mpc_ret' = [op |-> "validate", ctx |-> c, rc |-> r, sel |-> <<i>>,
                        a |-> buf, b |-> buf, out |-> buf,
                        constant |-> IF args_null THEN 1 ELSE 0]
        /\ NoTemps
        /\ UNCHANGED <<contexts, mpc_shares, mpc_val, mpc_cnt, mpc_cur, mpc_out, nops, rng>>
        /\ UNCHANGED <<sss_vars, other_vars>>

\* sss_wipe_share on one entry of the array after the split
SssWipeShare ==
    /\ pc = "dealt"
    /\ \E i \in 0..(MaxShares - 1), share_null \in BOOLEAN :
        /\ share_null => i = 0
        /\ pc' = "done"
        /\ sss_shares' = [sss_shares EXCEPT ![i] = sss_wipe_share(share_null, @)]
        /\ sss_ret' = [op |-> "wipe", rc |-> 0, secret_len |-> 0, threshold |-> 0,
                       num_shares |-> 0, sel |-> <<i>>,
                       nulls |-> IF share_null THEN "share" ELSE "none"]
        /\ NoTemps
        /\ UNCHANGED <<rng, sss_dealt, sss_oob, sss_out>>
        /\ UNCHANGED <<mpc_vars, other_vars>>

\* mpc_wipe_share on one entry of x
MpcWipeShare ==
    /\ pc = "shared"
    /\ nops = 0
    /\ \E i \in 0..(MaxShares - 1), share_null \in BOOLEAN :
        /\ share_null => i = 0
        /\ pc' = IF share_null THEN "done" ELSE "wiped"
        /\ mpc_shares' = [mpc_shares EXCEPT !["x"][i] = mpc_wipe_share(share_null, @)]
        /\ mpc_ret' = [op |-> "wipe", ctx |-> 1, rc |-> 0, sel |-> <<i>>,
                       a |-> "x", b |-> "x", out |-> "x",
                       constant |-> IF share_null THEN 1 ELSE 0]
        /\ NoTemps
        /\ UNCHANGED <<contexts, mpc_val, mpc_cnt, mpc_cur, mpc_out, nops, rng>>
        /\ UNCHANGED <<sss_vars, other_vars>>

\* the values a caller stores into a field of an entry: another party's
\* number, and one beyond all parties
StoredIds == {2, 99}

\* the caller stores into party_id or into share.index of the first entry of
\* y, as in shares_b[0].party_id = 99; y is then no sharing any more
AlterShare ==
    /\ pc = "shared"
    /\ nops = 0
    /\ \E field \in {"party_id", "index"}, id \in StoredIds :
        /\ pc' = "altered"
        /\ mpc_shares' = [mpc_shares EXCEPT
                              !["y"][0] = IF field = "party_id"
                                          THEN [@ EXCEPT !.party_id = id]
                                          ELSE [@ EXCEPT !.share.index = id]]
        /\ mpc_val' = [mpc_val EXCEPT !["y"] = NoVal]
        /\ mpc_cnt' = [mpc_cnt EXCEPT !["y"] = 0]
        /\ mpc_ret' = [op |-> "alter_" \o field, ctx |-> 1, rc |-> 0,
                       sel |-> <<0>>, a |-> "y", b |-> "y", out |-> "y",
                       constant |-> id]
        /\ NoTemps
        /\ UNCHANGED <<contexts, mpc_cur, mpc_out, nops, rng>>
        /\ UNCHANGED <<sss_vars, other_vars>>

\* mpc_cleanup_context on the first context
MpcCleanupContext ==
    /\ pc = "shared"
    /\ nops = 0
    /\ \E ctx_null \in BOOLEAN :
        /\ pc' = IF ctx_null THEN "done" ELSE "cleaned"
        /\ contexts' = [contexts EXCEPT ![1] = mpc_cleanup_context(ctx_null, @)]
        /\ mpc_ret' = [op |-> "cleanup", ctx |-> 1, rc |-> 0, sel |-> <<>>,
                       a |-> "x", b |-> "x", out |-> "x",
                       constant |-> IF ctx_null THEN 1 ELSE 0]
        /\ NoTemps
        /\ UNCHANGED <<mpc_shares, mpc_val, mpc_cnt, mpc_cur, mpc_out, nops, rng>>
        /\ UNCHANGED <<sss_vars, other_vars>>

(***************************************************************************)
(* The secure memory layer under two threads.  Each thread owns one buffer *)
(* and calls secure_memory_init, secure_malloc, secure_lock and            *)
(* secure_wipe on it; a step of a thread is one access to is_initialized,  *)
(* one call into libsodium, or the rest of a call.  is_initialized is a    *)
(* plain int that the threads read and write without synchronisation: a    *)
(* thread that has not yet seen the 1 another thread stored may read 0 or  *)
(* 1.  libsodium is taken to work: sodium_init, which is thread-safe,      *)
(* returns 0 on the first call and 1 afterwards, sodium_malloc and         *)
(* sodium_mlock succeed.                                                   *)
(***************************************************************************)
Threads == {1, 2}

\* bytes of a thread's buffer
BufLen == 2

MemoryCalls == {"secure_memory_init", "secure_malloc", "secure_lock", "secure_wipe"}

\* a thread before its first call: seen is the value of is_initialized it
\* has seen last, buf its buffer, calls the calls it has made, inits what
\* its calls of secure_memory_init returned, results what its calls gave
IdleThread ==
    [at |-> "idle", op |-> "none", seen |-> 0, buf |-> FreshBuffer(BufLen),
     calls |-> <<>>, inits |-> <<>>, results |-> <<>>]

ThreadsIdle ==
    /\ is_initialized = 0
    /\ sodium_ready = FALSE
    /\ threads = [t \in Threads |-> IdleThread]

\* variant of init_after_sodium that takes only the result 0 for a success
init_after_sodium_first_only(sodium_rc) ==
    IF sodium_rc # 0 THEN [rc |-> SSS_ERR_MEMORY, store |-> FALSE]
    ELSE [rc |-> SSS_OK, store |-> TRUE]

\* secure_memory_init from the result of sodium_init on: fail if it is
\* negative, else store 1 to is_initialized and return SSS_OK
init_after_sodium(sodium_rc) ==
    IF sodium_rc < 0 THEN [rc |-> SSS_ERR_MEMORY, store |-> FALSE]
    ELSE [rc |-> SSS_OK, store |-> TRUE]

\* sodium_init: 0 on the first call, 1 once the library is initialised
sodium_init(ready) == IF ready THEN 1 ELSE 0

\* the part of secure_malloc, secure_lock and secure_wipe after the test of
\* is_initialized: what the call returns and what the buffer holds then
\* (a pointer is 1 if it is not NULL)
memory_call_body(op, buf) ==
    IF op = "secure_malloc" THEN [op |-> op, rc |-> 1, buf |-> FreshBuffer(BufLen)]
    ELSE IF op = "secure_lock" THEN [op |-> op, rc |-> SSS_OK, buf |-> buf]
    ELSE [op |-> op, rc |-> 0, buf |-> secure_wipe(buf, 0)]

\* the values a read of is_initialized by a thread can give
LatchReads(thread) == {thread.seen} \cup (IF is_initialized = 1 THEN {1} ELSE {})

\* the thread after its call of secure_memory_init returned rc: the call is
\* over if it was the thread's own, else the caller goes on
AfterInit(thread, rc) ==
    IF thread.op = "secure_memory_init"
    THEN [thread EXCEPT !.at = "idle", !.inits = Append(@, rc),
                        !.results = Append(@, [op |-> thread.op, rc |-> rc,
                                               buf |-> thread.buf])]
    ELSE [thread EXCEPT !.at = "body", !.inits = Append(@, rc)]

\* a thread enters a call
ThreadCall ==
    /\ pc = "threads"
    /\ \E t \in Threads, op \in MemoryCalls :
        /\ threads[t].at = "idle"
        /\ Len(threads[t].calls) < MaxCalls
        /\ threads' = [threads EXCEPT
                          ![t].at = IF op = "secure_memory_init"
                                    THEN "init_check" ELSE "latch_check",
                          ![t].op = op,
                          ![t].calls = Append(@, op)]
        /\ UNCHANGED <<is_initialized, sodium_ready>>
    /\ UNCHANGED <<pc, rng, sss_vars, mpc_vars, mem_vars, gf, run>>

\* if (!is_initialized) secure_memory_init(); in secure_malloc, secure_lock
\* and secure_wipe
ThreadLatchCheck ==
    /\ pc = "threads"
    /\ \E t \in Threads :
        /\ threads[t].at = "latch_check"
        /\ \E read \in LatchReads(threads[t]) :
            threads' = [threads EXCEPT
                           ![t].seen = read,
                           ![t].at = IF read = 0 THEN "init_check" ELSE "body"]
        /\ UNCHANGED <<is_initialized, sodium_ready>>
    /\ UNCHANGED <<pc, rng, sss_vars, mpc_vars, mem_vars, gf, run>>

\* if (is_initialized) return SSS_OK; in secure_memory_init
ThreadInitCheck ==
    /\ pc = "threads"
    /\ \E t \in Threads :
        /\ threads[t].at = "init_check"
        /\ \E read \in LatchReads(threads[t]) :
            threads' = [threads EXCEPT
                           ![t] = IF read = 0
                                  THEN [@ EXCEPT !.seen = read, !.at = "sodium_init"]
                                  ELSE AfterInit([@ EXCEPT !.seen = read], SSS_OK)]
        /\ UNCHANGED <<is_initialized, sodium_ready>>
    /\ UNCHANGED <<pc, rng, sss_vars, mpc_vars, mem_vars, gf, run>>

\* if (sodium_init() < 0) return SSS_ERR_MEMORY; in secure_memory_init
ThreadSodiumInit ==
    /\ pc = "threads"
    /\ \E t \in Threads :
        /\ threads[t].at = "sodium_init"
        /\ sodium_ready' = TRUE
        /\ \E r \in {init_after_sodium(sodium_init(sodium_ready))} :
            threads' = [threads EXCEPT
                           ![t] = IF r.store THEN [@ EXCEPT !.at = "store"]
                                  ELSE AfterInit(@, r.rc)]
        /\ UNCHANGED is_initialized
    /\ UNCHANGED <<pc, rng, sss_vars, mpc_vars, mem_vars, gf, run>>

\* is_initialized = 1; return SSS_OK; in secure_memory_init
ThreadStore ==
    /\ pc = "threads"
    /\ \E t \in Threads :
        /\ threads[t].at = "store"
        /\ is_initialized' = 1
        /\ threads' = [threads EXCEPT ![t] = AfterInit([@ EXCEPT !.seen = 1], SSS_OK)]
        /\ UNCHANGED sodium_ready
    /\ UNCHANGED <<pc, rng, sss_vars, mpc_vars, mem_vars, gf, run>>

\* the rest of secure_malloc, secure_lock or secure_wipe, on the thread's
\* own buffer
ThreadBody ==
    /\ pc = "threads"
    /\ \E t \in Threads :
        /\ threads[t].at = "body"
        /\ \E r \in {memory_call_body(threads[t].op, threads[t].buf)} :
            threads' = [threads EXCEPT ![t].at = "idle", ![t].buf = r.buf,
                                       ![t].results = Append(@, r)]
        /\ UNCHANGED <<is_initialized, sodium_ready>>
    /\ UNCHANGED <<pc, rng, sss_vars, mpc_vars, mem_vars, gf, run>>

(***************************************************************************)
(* Split and combine at the largest sizes, one pass of a loop per step.    *)
(* sss_create_shares is called on a secret of one byte with                *)
(* num_shares = 255, sss_combine_shares on threshold of the shares it      *)
(* made.  The loop counters declared uint8_t are kept modulo 256; wrapped  *)
(* records that one of them was incremented at 255.  The random source     *)
(* gives the bytes of a tape in which zero bytes occur.                    *)
(***************************************************************************)
\* the thresholds of the runs: the least, one in the middle, the largest
LargeThresholds == {2, 128, 255}

LargeSecret == 83

LargeTape == <<0, 29, 0, 0, 255, 1>>

\* i++ on a uint8_t: the new value, and whether the counter wrapped around
Inc8(i) == [i |-> (i + 1) % 256, wrapped |-> i = 255]

\* an entry of the share array that was never stored (one data byte is kept)
UnsetShare == [index |-> 0, threshold |-> 0, data_len |-> 0, data |-> FreshBuffer(1)]

UnsetPoly ==
    [coefficients |-> [i \in 0..SSS_MAX_POLYNOMIAL_DEGREE |-> FillByte], degree |-> 0]

IdleRun ==
    [at |-> "idle", threshold |-> 0, num_shares |-> 0, i |-> 0, pos |-> 0,
     poly |-> UnsetPoly,
     shares |-> [k \in 0..(SSS_MAX_SHARES - 1) |-> UnsetShare],
     picked |-> <<>>,
     points_x |-> [k \in 0..(SSS_MAX_SHARES - 1) |-> FillByte],
     points_y |-> [k \in 0..(SSS_MAX_SHARES - 1) |-> FillByte],
     secret |-> 0, out |-> FillByte, rc |-> SSS_OK, wrapped |-> FALSE]

\* the run of a program that does not split at the largest sizes
NoRun == [at |-> "none"]

\* the run with its counter incremented
Counted(r) ==
    [r EXCEPT !.i = Inc8(r.i).i, !.wrapped = r.wrapped \/ Inc8(r.i).wrapped]

\* variant of zero_fill_continues with the bound 255
zero_fill_continues_to_255(i) == i <= SSS_MAX_SHARES

\* the test i <= SSS_MAX_POLYNOMIAL_DEGREE of the second loop of
\* sss_polynomial_create
zero_fill_continues(i) == i <= SSS_MAX_POLYNOMIAL_DEGREE

\* the passes that a loop on a uint8_t counter can make before the counter
\* wraps around
Passes8 == 256

\* the inner loop of the duplicate scan of sss_combine_shares: the next
\* passes of it, at most passes of them, from at on.  at holds the counter j,
\* whether the loop is still running, whether a share with the index of
\* shares[i] was found and whether j wrapped around.
RECURSIVE duplicate_scan(_, _, _, _, _)
duplicate_scan(shares, num_shares, i, at, passes) ==
    IF passes = 0 \/ ~at.running THEN at
    ELSE IF passes = 1
    THEN IF at.j < num_shares
         THEN IF shares[i].index = shares[at.j].index
              THEN [at EXCEPT !.running = FALSE, !.found = TRUE]
              ELSE [at EXCEPT !.j = Inc8(at.j).i, !.wrapped = Inc8(at.j).wrapped,
                              !.running = ~Inc8(at.j).wrapped]
         ELSE [at EXCEPT !.running = FALSE]
    ELSE CHOOSE after \in
            {duplicate_scan(shares, num_shares, i, half, passes - passes \div 2) :
                half \in {duplicate_scan(shares, num_shares, i, at,
                                         passes \div 2)}} : TRUE

\* for (uint8_t j = i + 1; j < num_shares; j++) of the duplicate scan
duplicate_follows(shares, num_shares, i) ==
    duplicate_scan(shares, num_shares, i,
                   [j |-> (i + 1) % 256, running |-> TRUE, found |-> FALSE,
                    wrapped |-> FALSE],
                   Passes8)

\* the inner loop of sss_polynomial_interpolate: the next passes of it, at
\* most passes of them, from at on.  at holds the counter j, whether the
\* loop is still running, the basis and whether j wrapped around.
RECURSIVE basis_scan(_, _, _, _, _)
basis_scan(points_x, num_points, i, at, passes) ==
    IF passes = 0 \/ ~at.running THEN at
    ELSE IF passes = 1
    THEN IF at.j < num_points
         THEN [at EXCEPT
                  !.basis = IF i = at.j THEN @
                            ELSE gf256_mul(@, lagrange_factor(points_x[at.j],
                                                              points_x[i])),
                  !.j = Inc8(at.j).i, !.wrapped = Inc8(at.j).wrapped,
                  !.running = ~Inc8(at.j).wrapped]
         ELSE [at EXCEPT !.running = FALSE]
    ELSE CHOOSE after \in
            {basis_scan(points_x, num_points, i, half, passes - passes \div 2) :
                half \in {basis_scan(points_x, num_points, i, at,
                                     passes \div 2)}} : TRUE

\* for (uint8_t j = 0; j < num_points; j++) of sss_polynomial_interpolate
basis_loop(points_x, num_points, i) ==
    basis_scan(points_x, num_points, i,
               [j |-> 0, running |-> TRUE, basis |-> 1, wrapped |-> FALSE],
               Passes8)

\* sss_create_shares(secret, 1, threshold, 255, shares) is called and
\* validates its arguments
LargeCreate ==
    /\ pc = "large"
    /\ run.at = "idle"
    /\ \E threshold \in LargeThresholds :
        \E rc \in {validate_share_params(FALSE, 1, threshold, SSS_MAX_SHARES, FALSE)} :
            run' = IF rc # SSS_OK THEN [run EXCEPT !.at = "done", !.rc = rc]
                   ELSE [run EXCEPT !.at = "init_shares", !.threshold = threshold,
                                    !.num_shares = SSS_MAX_SHARES, !.i = 0]
    /\ UNCHANGED <<pc, rng, sss_vars, mpc_vars, mem_vars, gf, thread_vars>>

\* for (uint8_t i = 0; i < num_shares; i++) of sss_create_shares, and the
\* entry of sss_polynomial_create after it
LargeInitShares ==
    /\ pc = "large"
    /\ run.at = "init_shares"
    /\ run' = IF run.i < run.num_shares
              THEN Counted([run EXCEPT
                       !.shares[run.i] = [index |-> (run.i + 1) % 256,
                                          threshold |-> run.threshold,
                                          data_len |-> 1,
                                          data |-> [j \in 0..0 |-> 0]]])
              ELSE IF run.threshold - 1 > SSS_MAX_POLYNOMIAL_DEGREE
              THEN [run EXCEPT !.at = "done", !.rc = SSS_ERR_CRYPTO]
              ELSE [run EXCEPT !.at = "coefficients", !.i = 1,
                       !.poly = [coefficients |->
                                    [run.poly.coefficients EXCEPT ![0] = LargeSecret],
                                 degree |-> run.threshold - 1]]
    /\ UNCHANGED <<pc, rng, sss_vars, mpc_vars, mem_vars, gf, thread_vars>>

\* for (uint8_t i = 1; i <= degree; i++) of sss_polynomial_create: one byte
\* is drawn per step, a zero byte is drawn again
LargeDrawCoefficient ==
    /\ pc = "large"
    /\ run.at = "coefficients"
    /\ run' = IF run.i <= run.poly.degree
              THEN LET coeff == LargeTape[run.pos + 1]
                       drawn == [run EXCEPT !.pos = (run.pos + 1) % Len(LargeTape)]
                   IN  IF coeff = 0 THEN drawn
                       ELSE Counted([drawn EXCEPT !.poly.coefficients[run.i] = coeff])
              ELSE [run EXCEPT !.at = "zero_fill", !.i = (run.poly.degree + 1) % 256]
    /\ UNCHANGED <<pc, rng, sss_vars, mpc_vars, mem_vars, gf, thread_vars>>

\* for (uint8_t i = degree + 1; i <= SSS_MAX_POLYNOMIAL_DEGREE; i++) of
\* sss_polynomial_create
LargeZeroFill ==
    /\ pc = "large"
    /\ run.at = "zero_fill"
    /\ run' = IF zero_fill_continues(run.i)
              THEN Counted([run EXCEPT
                       !.poly.coefficients =
                            [k \in DOMAIN @ |-> IF k = run.i THEN 0 ELSE @[k]]])
              ELSE [run EXCEPT !.at = "evaluate", !.i = 0]
    /\ UNCHANGED <<pc, rng, sss_vars, mpc_vars, mem_vars, gf, thread_vars>>

\* for (uint8_t share_idx = 0; share_idx < num_shares; share_idx++) of
\* sss_create_shares, then sss_polynomial_wipe and return SSS_OK
LargeEvaluate ==
    /\ pc = "large"
    /\ run.at = "evaluate"
    /\ run' = IF run.i < run.num_shares
              THEN Counted([run EXCEPT
                       !.shares[run.i].data[0] =
                            sss_polynomial_evaluate(run.poly, run.shares[run.i].index)])
              ELSE [run EXCEPT !.at = "created", !.rc = SSS_OK,
                               !.poly = sss_polynomial_wipe(run.poly)]
    /\ UNCHANGED <<pc, rng, sss_vars, mpc_vars, mem_vars, gf, thread_vars>>

\* sss_combine_shares is called on threshold of the shares, the first ones
\* or the last ones, and makes its checks up to the first loop
LargeCombine ==
    /\ pc = "large"
    /\ run.at = "created"
    /\ \E from \in {0, SSS_MAX_SHARES - run.threshold} :
        LET picked == [k \in 0..(run.threshold - 1) |-> run.shares[from + k]]
            num_shares == run.threshold
        IN  run' = IF num_shares = 0 \/ num_shares < picked[0].threshold
                   THEN [run EXCEPT !.at = "done", !.rc = SSS_ERR_INVALID_SHARES,
                                    !.picked = picked, !.num_shares = num_shares]
                   ELSE [run EXCEPT !.at = "same", !.i = 1, !.picked = picked,
                                    !.num_shares = num_shares]
    /\ UNCHANGED <<pc, rng, sss_vars, mpc_vars, mem_vars, gf, thread_vars>>

\* for (uint8_t i = 1; i < num_shares; i++) of sss_combine_shares
LargeCheckSame ==
    /\ pc = "large"
    /\ run.at = "same"
    /\ run' = IF run.i < run.num_shares
              THEN IF \/ run.picked[run.i].threshold # run.picked[0].threshold
                      \/ run.picked[run.i].data_len # run.picked[0].data_len
                   THEN [run EXCEPT !.at = "done", !.rc = SSS_ERR_INVALID_SHARES]
                   ELSE Counted(run)
              ELSE [run EXCEPT !.at = "duplicates", !.i = 0]
    /\ UNCHANGED <<pc, rng, sss_vars, mpc_vars, mem_vars, gf, thread_vars>>

\* for (uint8_t i = 0; i < num_shares; i++) of the duplicate scan, with its
\* inner loop from j = i + 1; then the test of the caller's buffer of 1 byte
LargeCheckDuplicates ==
    /\ pc = "large"
    /\ run.at = "duplicates"
    /\ \E scan \in {IF run.i < run.num_shares
                    THEN duplicate_follows(run.picked, run.num_shares, run.i)
                    ELSE [found |-> FALSE, wrapped |-> FALSE]} :
        run' = IF run.i < run.num_shares
               THEN IF scan.found
                    THEN [run EXCEPT !.at = "done", !.rc = SSS_ERR_DUPLICATE_SHARE]
                    ELSE Counted([run EXCEPT !.wrapped = @ \/ scan.wrapped])
               ELSE IF 1 < run.picked[0].data_len
               THEN [run EXCEPT !.at = "done", !.rc = SSS_ERR_BUFFER_TOO_SMALL]
               ELSE [run EXCEPT !.at = "collect", !.i = 0]
    /\ UNCHANGED <<pc, rng, sss_vars, mpc_vars, mem_vars, gf, thread_vars>>

\* for (uint8_t i = 0; i < num_shares; i++) that fills points_x and points_y
LargeCollect ==
    /\ pc = "large"
    /\ run.at = "collect"
    /\ run' = IF run.i < run.num_shares
              THEN Counted([run EXCEPT
                       !.points_x[run.i] = run.picked[run.i].index,
                       !.points_y[run.i] = run.picked[run.i].data[0]])
              ELSE [run EXCEPT !.at = "interpolate", !.i = 0, !.secret = 0]
    /\ UNCHANGED <<pc, rng, sss_vars, mpc_vars, mem_vars, gf, thread_vars>>

\* for (uint8_t i = 0; i < num_points; i++) of sss_polynomial_interpolate,
\* with its inner loop; then the store to the caller's buffer and return
LargeInterpolate ==
    /\ pc = "large"
    /\ run.at = "interpolate"
    /\ \E inner \in {IF run.i < run.num_shares
                     THEN basis_loop(run.points_x, run.num_shares, run.i)
                     ELSE [basis |-> 1, wrapped |-> FALSE]} :
        run' = IF run.i < run.num_shares
               THEN Counted([run EXCEPT
                        !.secret = gf256_add(@, gf256_mul(run.points_y[run.i],
                                                          inner.basis)),
                        !.wrapped = @ \/ inner.wrapped])
               ELSE [run EXCEPT !.at = "done", !.rc = SSS_OK, !.out = run.secret]
    /\ UNCHANGED <<pc, rng, sss_vars, mpc_vars, mem_vars, gf, thread_vars>>

\* the bench before any field routine was called
GfIdle == [op |-> "none", a |-> 0, b |-> 0, r |-> 0]

Init ==
    /\ pc = "start"
    /\ rng \in [tape : Tapes, pos : {0}]
    /\ SssInit
    /\ MpcInit
    /\ temps = <<>>
    /\ stores = <<>>
    /\ gf = GfIdle
    /\ ThreadsIdle
    /\ run = NoRun

Next ==
    \/ SssCreateShares
    \/ SssCombineShares
    \/ MpcInitContext
    \/ MpcCreateShares
    \/ MpcSecureAdd
    \/ MpcSecureSub
    \/ MpcSecureMulConst
    \/ MpcSecureMul
    \/ MpcSecureSum
    \/ MpcReconstruct
    \/ MpcValidateShare
    \/ SssWipeShare
    \/ MpcWipeShare
    \/ MpcCleanupContext
    \/ AlterShare
    \/ MpcSecureAverage
    \/ MpcSecureMax
    \/ MpcSecureGreater

Spec == Init /\ [][Next]_vars

(***************************************************************************)
(* The field routines on their own: every pair of bytes is handed to       *)
(* gf256_add and gf256_mul, every byte to gf256_inv.                       *)
(***************************************************************************)
FieldInit ==
    /\ pc = "field"
    /\ rng = [tape |-> <<1>>, pos |-> 0]
    /\ SssInit
    /\ MpcInit
    /\ temps = <<>>
    /\ stores = <<>>
    /\ gf \in [op : {"none"}, a : Byte, b : Byte, r : {0}]
    /\ ThreadsIdle
    /\ run = NoRun

GfAdd ==
    /\ pc = "field" /\ gf.op = "none"
    /\ gf' = [gf EXCEPT !.op = "add", !.r = gf256_add(gf.a, gf.b)]
    /\ UNCHANGED <<pc, rng, sss_vars, mpc_vars, mem_vars, thread_vars, run>>

GfMul ==
    /\ pc = "field" /\ gf.op = "none"
    /\ gf' = [gf EXCEPT !.op = "mul", !.r = gf256_mul(gf.a, gf.b)]
    /\ UNCHANGED <<pc, rng, sss_vars, mpc_vars, mem_vars, thread_vars, run>>

GfInv ==
    /\ pc = "field" /\ gf.op = "none"
    /\ gf.b = 0
    /\ gf' = [gf EXCEPT !.op = "inv", !.r = gf256_inv(gf.a)]
    /\ UNCHANGED <<pc, rng, sss_vars, mpc_vars, mem_vars, thread_vars, run>>

FieldNext == GfAdd \/ GfMul \/ GfInv

FieldSpec == FieldInit /\ [][FieldNext]_vars

ThreadInit ==
    /\ pc = "threads"
    /\ rng = [tape |-> <<1>>, pos |-> 0]
    /\ SssInit
    /\ MpcInit
    /\ temps = <<>>
    /\ stores = <<>>
    /\ gf = GfIdle
    /\ ThreadsIdle
    /\ run = NoRun

ThreadNext ==
    \/ ThreadCall
    \/ ThreadLatchCheck
    \/ ThreadInitCheck
    \/ ThreadSodiumInit
    \/ ThreadStore
    \/ ThreadBody

ThreadSpec == ThreadInit /\ [][ThreadNext]_vars

LargeInit ==
    /\ pc = "large"
    /\ rng = [tape |-> <<1>>, pos |-> 0]
    /\ SssInit
    /\ MpcInit
    /\ temps = <<>>
    /\ stores = <<>>
    /\ gf = GfIdle
    /\ ThreadsIdle
    /\ run = IdleRun

LargeNext ==
    \/ LargeCreate
    \/ LargeInitShares
    \/ LargeDrawCoefficient
    \/ LargeZeroFill
    \/ LargeEvaluate
    \/ LargeCombine
    \/ LargeCheckSame
    \/ LargeCheckDuplicates
    \/ LargeCollect
    \/ LargeInterpolate

\* the program is one thread that keeps running: a step that can be taken
\* is taken
LargeSpec == LargeInit /\ [][LargeNext]_vars /\ WF_vars(LargeNext)

(***************************************************************************)
(* Properties of split and combine                                         *)
(***************************************************************************)
\* sel picks at least k distinct shares among the first n of an array
ValidPick(sel, n, k) ==
    /\ Len(sel) >= k
    /\ \A i \in 1..Len(sel) : sel[i] < n
    /\ \A i \in 1..Len(sel) : \A j \in 1..Len(sel) : sel[i] = sel[j] => i = j

\* the last call was sss_combine_shares, on at least K distinct shares of the
\* split of a secret of 1..32 bytes, with room for the secret in the output
RoundTripCase ==
    /\ sss_ret.op = "combine"
    /\ sss_ret.nulls = "none"
    /\ sss_dealt # NoneDealt
    /\ sss_dealt.secret_len \in 1..SSS_SHARE_DATA_SIZE
    /\ ValidPick(sss_ret.sel, sss_dealt.num_shares, sss_dealt.threshold)
    /\ sss_ret.secret_len >= sss_dealt.secret_len

\* C1: round trip.  Combining any n distinct shares (K <= n <= N, any order)
\* of sss_create_shares(S, K, N), 1 <= |S| <= 32, returns SSS_OK, sets
\* *secret_len to |S| and writes exactly the bytes of S (the rest of the
\* output buffer keeps its bytes).
C1_RoundTrip ==
    RoundTripCase =>
        /\ sss_ret.rc = SSS_OK
        /\ sss_out.secret_len = sss_dealt.secret_len
        /\ \A j \in DOMAIN sss_out.secret :
              sss_out.secret[j] =
                IF j < sss_dealt.secret_len THEN sss_dealt.secret[j] ELSE FillByte

\* a round trip of a 32-byte secret from K < N shares taken out of order
C1_Witness ==
    /\ RoundTripCase
    /\ sss_dealt.secret_len = SSS_SHARE_DATA_SIZE
    /\ sss_dealt.threshold = 2
    /\ sss_dealt.num_shares = 3
    /\ sss_ret.sel = <<2, 0>>
    /\ sss_ret.rc = SSS_OK

\* the polynomial with constant term s and coefficients cs[1..d]
PolyOf(s, cs, d) ==
    [coefficients |-> [i \in 0..SSS_MAX_POLYNOMIAL_DEGREE |->
                          IF i = 0 THEN s ELSE IF i <= d THEN cs[i] ELSE 0],
     degree |-> d]

\* some coefficients that sss_polynomial_create can draw give, for secret
\* byte s, the bytes that the shares at positions T hold for byte j
CanArise(T, j, s) ==
    \E cs \in [1..(sss_dealt.threshold - 1) -> 1..255] :
        \A i \in T :
            sss_polynomial_evaluate(PolyOf(s, cs, sss_dealt.threshold - 1),
                                    sss_shares[i].index)
                = sss_shares[i].data[j]

\* C2: any K-1 shares reveal nothing.  Whatever K-1 shares of a split hold,
\* every other secret can produce the same bytes in those shares under some
\* choice of the coefficients.
C2_NothingRevealed ==
    (sss_dealt # NoneDealt /\ sss_dealt.secret_len <= SSS_SHARE_DATA_SIZE) =>
        \A T \in SUBSET (0..(sss_dealt.num_shares - 1)) :
            Cardinality(T) = sss_dealt.threshold - 1 =>
                \A j \in 0..(sss_dealt.secret_len - 1) : \A s \in Byte :
                    CanArise(T, j, s)

\* C8: sss_create_shares rejects every secret_len above SSS_SHARE_DATA_SIZE:
\* it stores no share byte at a data index >= 32 and emits no share with
\* data_len > 32.
C8_NoStoreBeyondData ==
    /\ (sss_ret.op = "create" /\ sss_ret.secret_len > SSS_SHARE_DATA_SIZE)
            => sss_ret.rc # SSS_OK
    /\ sss_oob = {}
    /\ \A i \in DOMAIN sss_shares :
            i < sss_dealt.num_shares
                => sss_shares[i].data_len <= SSS_SHARE_DATA_SIZE

\* C7: too few shares are detected.  sss_combine_shares on n >= 1 shares with
\* n < shares[0].threshold does not return SSS_OK; mpc_reconstruct and
\* mpc_secure_mul with num_shares < ctx.threshold return -1.
C7_TooFewDetected ==
    /\ (/\ sss_ret.op = "combine" /\ sss_ret.nulls = "none"
        /\ Len(sss_ret.sel) >= 1
        /\ Len(sss_ret.sel) < sss_shares[sss_ret.sel[1]].threshold)
            => sss_ret.rc # SSS_OK
    /\ (/\ mpc_ret.op \in {"reconstruct", "mul"}
        /\ Len(mpc_ret.sel) < contexts[mpc_ret.ctx].threshold)
            => mpc_ret.rc = MPC_FAIL

\* K-1 distinct shares of a 3-of-3 split are turned down
C7_Witness ==
    /\ sss_ret.op = "combine" /\ sss_ret.nulls = "none"
    /\ sss_dealt.threshold = 3
    /\ sss_ret.sel = <<0, 2>>
    /\ sss_ret.secret_len >= sss_dealt.secret_len
    /\ sss_ret.rc = SSS_ERR_INVALID_SHARES

(***************************************************************************)
(* Properties of the MPC layer                                             *)
(***************************************************************************)
\* the picks of k distinct entries, in any order, among the first n
KPicks(n, k) ==
    {sel \in InjPicks : Len(sel) = k /\ \A i \in 1..k : sel[i] < n}

\* mpc_reconstruct under contexts[c] on any K of the first n entries of the
\* array buf returns 0 and writes the bytes of expected
Reveals(c, buf, n, expected) ==
    \A sel \in KPicks(n, contexts[c].threshold) :
        LET r == mpc_reconstruct(FALSE, contexts[c],
                    Gather(mpc_shares[buf], sel), Len(sel),
                    FreshBuffer(contexts[c].value_size), FillByte)
        IN  r.rc = MPC_OK /\ r.reconstructed = expected

\* the last call was the arithmetic call op under contexts[1], made on the
\* shares that mpc_create_shares gave to at least k distinct parties
FirstCall(op, k) ==
    /\ mpc_ret.op = op
    /\ mpc_ret.ctx = 1
    /\ nops = 1
    /\ mpc_val["x"] # NoVal /\ mpc_val["y"] # NoVal
    /\ ValidPick(mpc_ret.sel, contexts[1].num_parties, k)

C5_MulCorrect ==
    FirstCall("mul", 2 * contexts[1].threshold - 1) =>
        /\ mpc_ret.rc = MPC_OK
        /\ Reveals(1, mpc_ret.out, contexts[1].num_parties,
                   MulBytes(mpc_val["x"], mpc_val[mpc_ret.b]))

\* three parties multiply their shares of two different nonzero secrets
C5_Witness ==
    /\ FirstCall("mul", 2 * contexts[1].threshold - 1)
    /\ mpc_ret.b = "y"
    /\ mpc_val["x"] # mpc_val["y"]
    /\ \E j \in DOMAIN mpc_val["x"] : mpc_val["x"][j] # 0 /\ mpc_val["y"][j] # 0
    /\ mpc_ret.rc = MPC_OK

\* the driver is in a chain of calls on the shares of all parties, in a
\* context with N >= 2K-1, after both secrets were shared
ChainCase ==
    /\ pc = "shared"
    /\ nops >= 1
    /\ mpc_val["x"] # NoVal /\ mpc_val["y"] # NoVal
    /\ contexts[1].num_parties >= 2 * contexts[1].threshold - 1

C9_ForeignSessionRejected ==
    (mpc_ret.op = "add" /\ mpc_ret.ctx = 2 /\ contexts[2] # ZeroContext
        /\ mpc_val["x"] # NoVal /\ mpc_val["y"] # NoVal)
        => mpc_ret.rc # MPC_OK

\* the invariant of an MPC share that belongs to the context c
ShareInvariant(c, share) ==
    /\ share.party_id = share.share.index
    /\ share.party_id >= 1 /\ share.party_id <= c.num_parties
    /\ share.computation_id = c.computation_id
    /\ share.share.data_len = c.value_size

\* the last call was a successful call under contexts[1] that writes shares
\* and took its inputs from shares made under contexts[1]
WroteShares ==
    /\ mpc_ret.op \in {"create", "add", "sub", "mul_const", "mul", "sum"}
    /\ mpc_ret.ctx = 1
    /\ mpc_ret.rc = MPC_OK
    /\ \A i \in 1..Len(mpc_ret.sel) : mpc_ret.sel[i] < contexts[1].num_parties

\* C10: MPC share invariant.  Every share written by a successful
\* mpc_create_shares, mpc_secure_add, mpc_secure_sub, mpc_secure_mul_const,
\* mpc_secure_mul or mpc_secure_sum on inputs of the same context has
\* party_id = share.index, 1 <= party_id <= num_parties, the context's
\* computation_id and data_len = value_size.
C10_ShareInvariant ==
    WroteShares =>
        \A i \in 0..(mpc_cnt[mpc_ret.out] - 1) :
            ShareInvariant(contexts[1], mpc_shares[mpc_ret.out][i])

\* mpc_secure_sum of two share sets held by the parties 3, 2, 1
C10_Witness ==
    /\ WroteShares
    /\ mpc_ret.op = "sum"
    /\ mpc_ret.constant = 2
    /\ mpc_ret.sel = <<2, 1, 0>>
    /\ mpc_cnt[mpc_ret.out] = 3

\* the conditions under which a share belongs to a context
Validates(ctx, share) ==
    /\ 1 <= share.party_id /\ share.party_id <= ctx.num_parties
    /\ share.computation_id = ctx.computation_id
    /\ share.share.data_len = ctx.value_size

\* C11: mpc_validate_share returns 0 exactly when the share's party_id is in
\* 1..num_parties, its computation_id is the context's and its data_len is
\* value_size, and -1 otherwise, also for a NULL argument; every share made
\* by mpc_create_shares under a context validates under it.
C11_ValidateExact ==
    /\ mpc_ret.op = "validate" =>
            mpc_ret.rc = IF /\ mpc_ret.constant = 0
                            /\ Validates(contexts[mpc_ret.ctx],
                                         mpc_shares[mpc_ret.a][mpc_ret.sel[1]])
                         THEN 0 ELSE -1
    /\ (mpc_ret.op = "create" /\ mpc_ret.rc = MPC_OK) =>
            \A i \in 0..(contexts[1].num_parties - 1) :
                mpc_validate_share(FALSE, contexts[1], mpc_shares[mpc_ret.out][i]) = 0

\* the share of the last party validates under the context that made it
C11_Witness ==
    /\ mpc_ret.op = "validate" /\ mpc_ret.constant = 0
    /\ mpc_ret.ctx = 1 /\ mpc_ret.a = "y"
    /\ contexts[1].num_parties = MaxShares
    /\ mpc_ret.sel = <<MaxShares - 1>>
    /\ mpc_val["y"] # NoVal
    /\ mpc_ret.rc = 0

AllZeroShare(share) ==
    /\ share.index = 0 /\ share.threshold = 0 /\ share.data_len = 0
    /\ \A j \in DOMAIN share.data : share.data[j] = 0

\* C12: zeroisation.  After sss_wipe_share or mpc_wipe_share every byte of
\* the share is 0, after mpc_cleanup_context every field of the context is
\* 0, and a call with NULL changes nothing.
C12_Zeroisation ==
    [][/\ (pc = "dealt" /\ sss_ret'.op = "wipe") =>
            IF sss_ret'.nulls = "none"
            THEN AllZeroShare(sss_shares'[sss_ret'.sel[1]])
            ELSE sss_shares' = sss_shares
       /\ (pc = "shared" /\ mpc_ret'.op = "wipe") =>
            IF mpc_ret'.constant = 0
            THEN /\ AllZeroShare(mpc_shares'["x"][mpc_ret'.sel[1]].share)
                 /\ mpc_shares'["x"][mpc_ret'.sel[1]].party_id = 0
                 /\ mpc_shares'["x"][mpc_ret'.sel[1]].computation_id = 0
            ELSE mpc_shares' = mpc_shares
       /\ (pc = "shared" /\ mpc_ret'.op = "cleanup") =>
            IF mpc_ret'.constant = 0
            THEN /\ contexts'[1].num_parties = 0 /\ contexts'[1].threshold = 0
                 /\ contexts'[1].computation_id = 0 /\ contexts'[1].value_size = 0
            ELSE contexts' = contexts
      ]_vars

\* a share that mpc_create_shares wrote has been wiped
C12_Witness ==
    /\ pc = "wiped"
    /\ mpc_ret.op = "wipe" /\ mpc_ret.sel = <<1>>
    /\ mpc_val["x"] # NoVal
    /\ mpc_shares["x"][1] = ZeroMpcShare

C14_CreateRejects ==
    [][(pc = "start" /\ sss_ret'.op = "create") =>
        LET bad_param == \/ sss_ret'.nulls # "none"
                         \/ sss_ret'.secret_len = 0
                         \/ sss_ret'.secret_len > 1024
            bad_threshold == \/ sss_ret'.threshold < 2
                             \/ sss_ret'.threshold > sss_ret'.num_shares
        IN  /\ bad_param =>
                /\ sss_ret'.rc = SSS_ERR_INVALID_PARAM
                /\ sss_shares' = sss_shares
            /\ (~bad_param /\ bad_threshold) =>
                /\ sss_ret'.rc = SSS_ERR_INVALID_THRESHOLD
                /\ sss_shares' = sss_shares
      ]_vars

\* a split with a threshold above the number of shares was turned down
C14_Witness ==
    /\ sss_ret.op = "create" /\ sss_ret.nulls = "none"
    /\ sss_ret.secret_len = 1
    /\ sss_ret.threshold = 3 /\ sss_ret.num_shares = 2
    /\ sss_ret.rc = SSS_ERR_INVALID_THRESHOLD
    /\ sss_shares = FreshShares

\* sss_combine_shares was called on n >= K shares that agree on threshold and
\* data length, two of which carry the same index
DuplicateCase ==
    /\ sss_ret.op = "combine" /\ sss_ret.nulls = "none"
    /\ Len(sss_ret.sel) >= 1
    /\ LET shares == Gather(sss_shares, sss_ret.sel)
           n == Len(sss_ret.sel)
       IN  /\ n >= shares[0].threshold
           /\ \A i \in 0..(n - 1) :
                /\ shares[i].threshold = shares[0].threshold
                /\ shares[i].data_len = shares[0].data_len
           /\ \E i \in 0..(n - 1) : \E j \in 0..(n - 1) :
                i # j /\ shares[i].index = shares[j].index

\* the output buffer and *secret_len are as the caller passed them
CombineWroteNothing ==
    /\ sss_out.secret = FreshBuffer(sss_ret.secret_len)
    /\ sss_out.secret_len = sss_ret.secret_len

\* C15: sss_combine_shares on n >= K shares that agree on threshold and
\* length but hold one index twice fails with SSS_ERR_DUPLICATE_SHARE and
\* writes nothing to the secret buffer.
C15_DuplicateRejected ==
    DuplicateCase =>
        /\ sss_ret.rc = SSS_ERR_DUPLICATE_SHARE
        /\ CombineWroteNothing

\* C15 as stated: the call fails with SSS_ERR_INVALID_SHARES and writes
\* nothing to the secret buffer.
C15_DuplicateInvalidShares ==
    DuplicateCase =>
        /\ sss_ret.rc = SSS_ERR_INVALID_SHARES
        /\ CombineWroteNothing

\* the first share handed in again after the second, for a 2-of-n split
C15_Witness ==
    /\ DuplicateCase
    /\ sss_dealt.threshold = 2
    /\ sss_ret.sel = <<0, 1, 0>>
    /\ sss_ret.secret_len >= sss_dealt.secret_len
    /\ sss_ret.rc = SSS_ERR_DUPLICATE_SHARE

(***************************************************************************)
(* Properties of the field                                                 *)
(***************************************************************************)
\* the third operands of the laws with three operands
Thirds == {(17 * k) % 256 : k \in 0..MaxThird}

\* C16: field axioms.  gf256_add is commutative and associative, 0 is its
\* identity and a + a = 0; gf256_mul is commutative and associative, 1 is
\* its identity and it distributes over gf256_add; for a # 0,
\* gf256_mul(a, gf256_inv(a)) = 1.
C16_FieldAxioms ==
    /\ gf.op = "add" =>
        /\ gf.r = gf256_add(gf.b, gf.a)
        /\ gf.b = 0 => gf.r = gf.a
        /\ gf.b = gf.a => gf.r = 0
        /\ \A c \in Thirds :
                gf256_add(gf.r, c) = gf256_add(gf.a, gf256_add(gf.b, c))
    /\ gf.op = "mul" =>
        /\ gf.r = gf256_mul(gf.b, gf.a)
        /\ gf.b = 1 => gf.r = gf.a
        /\ \A c \in Thirds :
            /\ gf256_mul(gf.r, c) = gf256_mul(gf.a, gf256_mul(gf.b, c))
            /\ gf256_mul(gf.a, gf256_add(gf.b, c))
                    = gf256_add(gf.r, gf256_mul(gf.a, c))
    /\ (gf.op = "inv" /\ gf.a # 0) => gf256_mul(gf.a, gf.r) = 1

\* the inverse of 0x53 is 0xCA
C16_Witness ==
    /\ gf.op = "inv" /\ gf.a = 83 /\ gf.r = 202

(***************************************************************************)
(* Properties of the high-level MPC functions                              *)
(***************************************************************************)
\* mpc_secure_add folded from the left over share_sets[0..v]
RECURSIVE AddFold(_, _, _, _)
AddFold(ctx, share_sets, n, v) ==
    IF v = 0 THEN share_sets[0]
    ELSE mpc_secure_add(FALSE, ctx, AddFold(ctx, share_sets, n, v - 1),
                        share_sets[v], [i \in 0..(n - 1) |-> PoisonMpcShare],
                        n).shares

\* two shares with the same fields and the same bytes data[0..data_len)
SameShare(u, v) ==
    /\ u.party_id = v.party_id /\ u.computation_id = v.computation_id
    /\ u.share.index = v.share.index /\ u.share.threshold = v.share.threshold
    /\ u.share.data_len = v.share.data_len
    /\ \A j \in 0..(u.share.data_len - 1) : u.share.data[j] = v.share.data[j]

\* the last call was op under contexts[1] on the shares that n >= 1 distinct
\* parties hold of x and y
HighLevelCase(op) ==
    /\ mpc_ret.op = op /\ mpc_ret.ctx = 1
    /\ mpc_val["x"] # NoVal /\ mpc_val["y"] # NoVal
    /\ ValidPick(mpc_ret.sel, contexts[1].num_parties, 1)

\* C17: mpc_secure_sum over V >= 1 share sets of n shares each, made under
\* the context and in the same party order, returns 0; its output is the
\* left fold of mpc_secure_add over the sets, and any K of the output shares
\* reconstruct to the XOR of the V secrets.
C17_SumIsFold ==
    HighLevelCase("sum") =>
        LET n == Len(mpc_ret.sel)
            fold == AddFold(contexts[1], ShareSets(mpc_ret.b, mpc_ret.sel), n,
                            Len(mpc_ret.b) - 1)
        IN  /\ mpc_ret.rc = 0
            /\ \A i \in 0..(n - 1) :
                    SameShare(mpc_shares[mpc_ret.out][i], fold[i])
            /\ n >= contexts[1].threshold =>
                    Reveals(1, mpc_ret.out, n, SumVals(mpc_ret.b))

\* the sum of the sets y and x over the shares of all three parties
C17_Witness ==
    /\ HighLevelCase("sum")
    /\ mpc_ret.b = <<"y", "x">>
    /\ mpc_ret.sel = <<0, 1, 2>>
    /\ contexts[1].threshold = 3
    /\ mpc_val["x"] # mpc_val["y"]
    /\ mpc_ret.rc = 0

\* the last call was op on one-byte values, with the shares of n >= K parties
RevealCase(op) ==
    /\ HighLevelCase(op)
    /\ contexts[1].value_size = 1
    /\ Len(mpc_ret.sel) >= contexts[1].threshold

\* C18: for value_size = 1, V >= 1 share sets and n >= K shares per set,
\* mpc_secure_average returns 0 and sets *average to floor(s / V), where s
\* is the XOR of the V one-byte secrets taken as an unsigned integer.
C18_AverageOfXor ==
    RevealCase("average") /\ Len(mpc_ret.b) >= 1 =>
        /\ mpc_ret.rc = 0
        /\ mpc_out[0] = SumVals(mpc_ret.b)[0] \div Len(mpc_ret.b)

\* 0x53 and 0x00 average to 41
C18_Witness ==
    /\ RevealCase("average")
    /\ mpc_ret.b = <<"x", "y">>
    /\ mpc_val["x"][0] = 83 /\ mpc_val["y"][0] = 0
    /\ contexts[1].threshold = 2 /\ mpc_ret.sel = <<0, 1, 2>>
    /\ mpc_out[0] = 41

\* the one-byte secrets of the sets named by sets
ByteVals(sets) == [v \in 1..Len(sets) |-> mpc_val[sets[v]][0]]

\* C19: mpc_secure_max sets *maximum to the largest of the V reconstructed
\* values as unsigned integers and *max_index to the smallest 0-based index
\* of a set that attains it; mpc_secure_greater sets *result to 1 if x > y
\* and to 0 otherwise.
C19_PlainComparison ==
    /\ (RevealCase("max") \/ RevealCase("max_only")) =>
        LET vals == ByteVals(mpc_ret.b)
        IN  /\ mpc_ret.rc = 0
            /\ \A v \in DOMAIN vals : vals[v] <= mpc_out[0]
            /\ \E v \in DOMAIN vals : vals[v] = mpc_out[0]
            /\ RevealCase("max") =>
                /\ mpc_out[1] + 1 \in DOMAIN vals
                /\ vals[mpc_out[1] + 1] = mpc_out[0]
                /\ \A v \in DOMAIN vals : vals[v] = mpc_out[0] => v >= mpc_out[1] + 1
    /\ RevealCase("greater") =>
        /\ mpc_ret.rc = 0
        /\ mpc_out[0] = IF mpc_val[mpc_ret.a][0] > mpc_val[mpc_ret.b][0]
                         THEN 1 ELSE 0

\* two sets of the same value: the maximum is reported for the first
C19_Witness ==
    /\ RevealCase("max")
    /\ mpc_ret.b = <<"y", "y">>
    /\ mpc_val["y"][0] = 83
    /\ mpc_out[0] = 83 /\ mpc_out[1] = 0

\* C20: no partial mutation on error.  When sss_create_shares,
\* sss_combine_shares, mpc_create_shares, mpc_reconstruct, mpc_secure_add,
\* mpc_secure_sub, mpc_secure_mul_const, mpc_secure_mul or mpc_secure_sum
\* returns an error, its output array or buffer is what it was before the
\* call.
C20_NoPartialMutation ==
    [][/\ (pc = "start" /\ sss_ret'.op = "create" /\ sss_ret'.rc # SSS_OK) =>
            sss_shares' = sss_shares
       /\ (pc = "dealt" /\ sss_ret'.op = "combine" /\ sss_ret'.rc # SSS_OK) =>
            /\ sss_out'.secret = FreshBuffer(sss_ret'.secret_len)
            /\ sss_out'.secret_len = sss_ret'.secret_len
       /\ (/\ mpc_ret'.op \in {"create", "add", "sub", "mul_const", "mul", "sum"}
           /\ mpc_ret'.rc # MPC_OK) =>
            mpc_shares' = mpc_shares
       /\ (pc = "shared" /\ mpc_ret'.op = "reconstruct" /\ mpc_ret'.rc # MPC_OK) =>
            mpc_out' = FreshBuffer(contexts[1].value_size)
      ]_vars

(***************************************************************************)
(* Properties of mpc_secure_mul on fewer than 2K-1 shares                  *)
(***************************************************************************)
\* the last call was mpc_secure_mul on the shares that n distinct parties
\* hold of x and y, K <= n < 2K-1
BelowDegree ==
    /\ FirstCall("mul", contexts[1].threshold)
    /\ Len(mpc_ret.sel) < 2 * contexts[1].threshold - 1

\* mpc_secure_mul on K <= n < 2K-1 matching shares returns 0
BelowDegreeReturnsOk == BelowDegree => mpc_ret.rc = MPC_OK

\* C23: reveal-and-reshare below 2K-1.  For K <= n < 2K-1 valid matching
\* shares of X and Y, mpc_secure_mul returns 0 and any K of the shares it
\* writes reconstruct to gf256_mul(X[j], Y[j]) in every byte j.
C23_RevealAndReshare ==
    BelowDegree =>
        /\ mpc_ret.rc = MPC_OK
        /\ Reveals(1, mpc_ret.out, contexts[1].num_parties,
                   MulBytes(mpc_val["x"], mpc_val[mpc_ret.b]))

\* a step in which mpc_secure_mul returns 0
MulReturnsOk ==
    /\ nops' = nops + 1
    /\ mpc_ret'.op = "mul"
    /\ mpc_ret'.rc = MPC_OK

\* what a successful mpc_secure_mul does write: one share for each of the N
\* parties of the context, in the order of the parties, and nothing else
MulWritesForAllParties ==
    [][MulReturnsOk =>
        \A i \in 0..(MaxShares - 1) :
            IF i < contexts[mpc_ret'.ctx].num_parties
            THEN /\ mpc_shares'[mpc_ret'.out][i].party_id = i + 1
                 /\ mpc_shares'[mpc_ret'.out][i].share.index = i + 1
            ELSE mpc_shares'[mpc_ret'.out][i] = mpc_shares[mpc_ret'.out][i]
      ]_vars

\* C24: mpc_secure_mul maps n input shares to n output shares.  It writes
\* exactly the entries shares_prod[0..n) and nothing beyond them, and output
\* i has the party_id and the share index of input i.
C24_MulMapsShares ==
    [][MulReturnsOk =>
        LET n == Len(mpc_ret'.sel)
            shares_x == Gather(mpc_shares[mpc_ret'.a], mpc_ret'.sel)
            shares_prod == mpc_shares'[mpc_ret'.out]
        IN  \A i \in 0..(MaxShares - 1) :
                IF i < n
                THEN /\ shares_prod[i].party_id = shares_x[i].party_id
                     /\ shares_prod[i].share.index = shares_x[i].share.index
                ELSE shares_prod[i] = mpc_shares[mpc_ret'.out][i]
      ]_vars

(***************************************************************************)
(* Properties of sss_create_shares on no shares                            *)
(***************************************************************************)
\* the last SSS call was sss_create_shares with num_shares = 0, non-NULL
\* secret and shares and a valid secret_len
ZeroSharesCase ==
    /\ sss_ret.op = "create" /\ sss_ret.nulls = "none"
    /\ sss_ret.secret_len >= 1 /\ sss_ret.secret_len <= SSS_MAX_SECRET_SIZE
    /\ sss_ret.num_shares = 0

WipedUnit(kind) ==
    IF kind = "bytes" THEN 0
    ELSE IF kind = "sss_shares" THEN ZeroShare
    ELSE ZeroMpcShare

\* every unit of the temporary that held material is zero
IsWiped(temp) ==
    \A u \in 0..(temp.held - 1) : temp.left[u] = WipedUnit(temp.kind)

\* the temporaries of the last call that it returned without wiping
Unwiped == {k \in 1..Len(temps) : temps[k].held > 0 /\ ~IsWiped(temps[k])}

\* C21: when sss_create_shares, mpc_create_shares, mpc_reconstruct,
\* mpc_secure_mul, mpc_secure_sum, mpc_secure_average, mpc_secure_max or
\* mpc_secure_greater returns, with success or with an error, every temporary
\* it created that held coefficients, copies of share data or a reconstructed
\* value is all zero.
C21_TemporariesWiped == Unwiped = {}

\* the part of it that the code keeps: the polynomial of sss_create_shares,
\* the sss_share_t arrays of mpc_create_shares and mpc_reconstruct, the arrays
\* intermediate and product of mpc_secure_mul, shares_sum of
\* mpc_secure_average and values of mpc_secure_max are wiped on every path
HeapAndPolynomialWiped ==
    \A k \in Unwiped : temps[k].name \in {"temp", "sum", "x", "y"}


(***************************************************************************)
(* The one-byte result holders                                             *)
(***************************************************************************)
\* C28: under every initialised context, value_size > 1 included,
\* mpc_secure_average, mpc_secure_max and mpc_secure_greater cause at most one
\* byte to be written into each one-byte target they hand to mpc_reconstruct
\* (sum, values[i], x, y).
C28_ResultHoldersNotOverrun ==
    \A k \in 1..Len(stores) : stores[k].len <= stores[k].size

\* what the code does: a successful mpc_reconstruct stores value_size bytes
\* from the first byte of the target on, whatever the target's size
StoresValueSize ==
    \A k \in 1..Len(stores) : stores[k].len \in {0, contexts[1].value_size}

(***************************************************************************)
(* The division of mpc_secure_average                                      *)
(***************************************************************************)
\* the last call was mpc_secure_average with no set at all, with ctx or
\* share_sets NULL, or with no share per set
NothingToAverage ==
    /\ mpc_ret.op \in {"average", "average_null"}
    /\ \/ mpc_ret.constant = 0
       \/ mpc_ret.a \in {"ctx", "share_sets"}
       \/ mpc_ret.sel = <<>>

\* C30: mpc_secure_average never divides by zero: for num_values = 0, and
\* likewise for ctx or share_sets NULL or num_shares = 0, it returns -1
\* before the division and *average is what it was before the call.
C30_AverageNeverDividesByZero ==
    NothingToAverage =>
        /\ mpc_ret.rc = MPC_FAIL
        /\ mpc_out = [j \in 0..0 |-> FillByte]
        /\ stores = <<>>

\* no set at all, with the shares of all three parties
C30_Witness ==
    /\ NothingToAverage
    /\ mpc_ret.op = "average"
    /\ mpc_ret.constant = 0
    /\ mpc_ret.sel = <<0, 1, 2>>
    /\ contexts[1].num_parties = 3
    /\ contexts[1].value_size = 1
    /\ mpc_ret.rc = MPC_FAIL

(***************************************************************************)
(* The context after mpc_cleanup_context                                   *)
(***************************************************************************)
\* the calls that take a context
ContextCalls ==
    {"create", "reconstruct", "validate", "add", "sub", "mul_const", "mul",
     "sum", "average", "average_null", "max", "max_only", "greater"}

\* a call on the context that mpc_cleanup_context has run on
CallOnCleaned == pc = "cleaned" /\ mpc_ret'.op \in ContextCalls

\* C27: once mpc_cleanup_context has run on a context, every later call that
\* takes the context (mpc_create_shares, mpc_reconstruct, mpc_validate_share,
\* mpc_secure_add, mpc_secure_sub, mpc_secure_mul_const, mpc_secure_mul,
\* mpc_secure_sum, mpc_secure_average, mpc_secure_max, mpc_secure_greater)
\* fails with -1.
C27_CleanedContextRejected ==
    [][CallOnCleaned => mpc_ret'.rc = MPC_FAIL]_vars

\* what the code does: mpc_secure_sum of one set never looks at the context,
\* returns 0 and copies the set to the output; every other call fails
CleanedContextRejectedButSum ==
    [][CallOnCleaned =>
        IF mpc_ret'.op = "sum" /\ Len(mpc_ret'.b) = 1 /\ mpc_ret'.sel # <<>>
        THEN /\ mpc_ret'.rc = MPC_OK
             /\ \A i \in 0..(Len(mpc_ret'.sel) - 1) :
                    mpc_shares'[mpc_ret'.out][i] = mpc_shares[mpc_ret'.b[1]][i]
        ELSE mpc_ret'.rc = MPC_FAIL]_vars

(***************************************************************************)
(* The pairs that mpc_secure_add and mpc_secure_sub combine                *)
(***************************************************************************)
\* the last call was mpc_secure_add or mpc_secure_sub
PairwiseCase == mpc_ret.op \in {"add", "sub"}

\* the entries the last call was handed at position i of shares_x and shares_y
PairX(i) == mpc_shares[mpc_ret.a][mpc_ret.sel[i + 1]]

PairY(i) == mpc_shares[mpc_ret.b][mpc_ret.sel[i + 1]]

\* C29 as the code has it: whenever shares_x[i].party_id differs from
\* shares_y[i].party_id for some i < num_shares, mpc_secure_add and
\* mpc_secure_sub fail with -1; share.index is not compared.
C29_SamePartyOnly ==
    PairwiseCase =>
        ((\E i \in 0..(Len(mpc_ret.sel) - 1) : PairX(i).party_id # PairY(i).party_id)
            => mpc_ret.rc = MPC_FAIL)

\* C29 as stated: whenever shares_x[i].share.index differs from
\* shares_y[i].share.index for some i < num_shares, the call fails with -1.
C29_SameIndexOnly ==
    PairwiseCase =>
        ((\E i \in 0..(Len(mpc_ret.sel) - 1) :
                PairX(i).share.index # PairY(i).share.index)
            => mpc_ret.rc = MPC_FAIL)

\* y[0] carries the number of party 2, within the context's range, and the
\* addition of x and y was turned down
C29_Witness ==
    /\ PairwiseCase
    /\ mpc_ret.op = "add" /\ mpc_ret.a = "x" /\ mpc_ret.b = "y"
    /\ mpc_ret.sel = <<0, 1, 2>>
    /\ mpc_shares["x"][0].party_id = 1
    /\ mpc_shares["y"][0].party_id = 2
    /\ mpc_shares["y"][0].share.index = 1
    /\ mpc_ret.rc = MPC_FAIL

(***************************************************************************)
(* Two threads on disjoint data                                            *)
(***************************************************************************)
\* a thread that runs the calls alone, one after the other: what the calls
\* give, from the buffer buf and the value latch of is_initialized on
RECURSIVE RunAlone(_, _, _, _)
RunAlone(calls, buf, latch, ready) ==
    IF calls = <<>> THEN <<>>
    ELSE LET op == Head(calls)
             init == IF latch # 0 THEN [rc |-> SSS_OK, store |-> FALSE]
                     ELSE init_after_sodium(sodium_init(ready))
             set == IF init.store THEN 1 ELSE latch
             r == IF op = "secure_memory_init"
                  THEN [op |-> op, rc |-> init.rc, buf |-> buf]
                  ELSE memory_call_body(op, buf)
         IN  <<r>> \o RunAlone(Tail(calls), r.buf, set, TRUE)

\* the calls of the thread that have returned
CallsReturned(thread) ==
    IF thread.at = "idle" THEN thread.calls
    ELSE SubSeq(thread.calls, 1, Len(thread.calls) - 1)

\* every call of secure_memory_init so far has returned SSS_OK, and what
\* each thread got from its calls is what it gets when it runs them alone
ThreadsUndisturbed ==
    \A t \in Threads :
        /\ \A k \in 1..Len(threads[t].inits) : threads[t].inits[k] = SSS_OK
        /\ threads[t].results
            = RunAlone(CallsReturned(threads[t]), FreshBuffer(BufLen), 0, FALSE)

\* is_initialized changes from 0 to 1 and in no other way
LatchOnlySet ==
    is_initialized' # is_initialized => is_initialized = 0 /\ is_initialized' = 1

LargeRunSound ==
    /\ ~run.wrapped
    /\ run.at = "done" => run.rc = SSS_OK /\ run.out = LargeSecret

\* C26: with N = 255 and K in [2,255], sss_create_shares,
\* sss_polynomial_create, sss_combine_shares and sss_polynomial_interpolate
\* terminate, no uint8_t loop counter wraps around at 255 (the random source
\* yielding a nonzero byte for each coefficient in the end), and combining K
\* of the 255 shares returns the secret.
C26_MaximumBounds == []LargeRunSound /\ <>(run.at = "done")

\* the last 255 of 255 shares, made with a polynomial of degree 254, gave the
\* secret back
C26_Witness ==
    /\ pc = "large"
    /\ run.at = "done"
    /\ run.threshold = 255
    /\ run.num_shares = 255
    /\ run.shares[254].index = 255
    /\ run.poly.degree = 0
    /\ run.i = 255
    /\ run.rc = SSS_OK /\ run.out = LargeSecret

====
